---- MODULE Spec2Model ----
(***************************************************************************)
(* Model of the jan-contract document "demystifier":                       *)
(*   - agents/demystifier_agent.py : the analysis graph (summarize ->      *)
(*     identify_terms -> generate_report) and                              *)
(*     process_document_for_demystification;                               *)
(*   - main.py : the session registry SESSION_CACHE and the upload, chat,  *)
(*     list and delete endpoints.                                          *)
(*                                                                         *)
(* Strings are sequences of tokens.  A token is one character class or one *)
(* whole literal of the source: "Explanation:" and "URL:" are the two      *)
(* markers generate_report_node splits on, "," is the separator            *)
(* identify_terms_node splits on, " " is a whitespace character, and       *)
(* "x", "a", "b" are non-whitespace characters.  A literal of the source   *)
(* (a placeholder, the default link) is a one-token string.                *)
(*                                                                         *)
(* The endpoints of main.py are `async def` functions without any await,   *)
(* so the event loop runs each request to completion: a request is         *)
(* accepted only when pc = "idle".  An upload is followed statement by     *)
(* statement through pc.                                                   *)
(***************************************************************************)
EXTENDS Integers, Sequences, FiniteSets, TLC

\* ------------------------------------------------------------------ bounds

\* uploads accepted by one run of the server (caps the uuid counter)
MaxUploads == 2
\* longest model response (in tokens) offered to the enrichment parser
MaxContentLen == 3
\* most comma-separated fields in a response to the identify-terms prompt
MaxFields == 6
\* longest response of the term identification written token by token
MaxTermsLen == 5
\* chat and delete requests in flight at once
MaxRequests == 3
\* contracts generated and videos uploaded
MaxContracts == 2
MaxVideos == 2

\* ------------------------------------------------------- string helpers

EXPLANATION == "Explanation:"
URL == "URL:"
COMMA == ","
SPACE == " "

\* the tokens of a string s, as a set
Tokens(s) == {s[i] : i \in 1..Len(s)}

\* Python: sub in s, for a one-token sub
Contains(s, tok) == tok \in Tokens(s)

\* Python: s.strip()
RECURSIVE lstrip(_)
lstrip(s) ==
    IF s # <<>> /\ Head(s) = SPACE THEN lstrip(Tail(s)) ELSE s

RECURSIVE rstrip(_)
rstrip(s) ==
    IF s # <<>> /\ s[Len(s)] = SPACE THEN rstrip(SubSeq(s, 1, Len(s) - 1)) ELSE s

strip(s) == rstrip(lstrip(s))

\* Python: s.split(sep), the list of the pieces of s between occurrences of sep
RECURSIVE split(_, _)
split(s, sep) ==
    IF ~Contains(s, sep)
    THEN <<s>>
    ELSE LET i == CHOOSE j \in 1..Len(s) :
                      /\ s[j] = sep
                      /\ \A k \in 1..(j - 1) : s[k] # sep
         IN  <<SubSeq(s, 1, i - 1)>> \o split(SubSeq(s, i + 1, Len(s)), sep)

\* Python: [f(x) for x in xs] for the term list of identify_terms_node
RECURSIVE StripOnly(_)
StripOnly(fields) ==
    IF fields = <<>> THEN <<>>
    ELSE <<strip(Head(fields))>> \o StripOnly(Tail(fields))

\* Python: [f(x) for x in xs if p(x)] for the term list of identify_terms_node
RECURSIVE strip_nonempty(_)
strip_nonempty(fields) ==
    IF fields = <<>> THEN <<>>
    ELSE LET t == strip(Head(fields))
         IN  (IF t # <<>> THEN <<t>> ELSE <<>>) \o strip_nonempty(Tail(fields))

\* all strings over alphabet A of length 0..n
RECURSIVE StringsUpTo(_, _)
StringsUpTo(A, n) ==
    IF n = 0 THEN {<<>>}
    ELSE LET shorter == StringsUpTo(A, n - 1)
         IN  shorter \cup {Append(s, c) : s \in shorter, c \in A}

\* Python: sep.join(fields)
RECURSIVE join(_, _)
join(fields, sep) ==
    IF fields = <<>> THEN <<>>
    ELSE IF Len(fields) = 1 THEN Head(fields)
    ELSE Head(fields) \o <<sep>> \o join(Tail(fields), sep)

\* ------------------------------------------------- literals of the source

NO_CONTENT_SUMMARY == <<"No content to summarize.">>
SUMMARY_FAILED == <<"Summary generation failed.">>
SUMMARY_ERROR == <<"Summary generation failed due to an error.">>
SUMMARY_UNAVAILABLE == <<"Summary unavailable.">>
SEARCH_UNAVAILABLE == <<"Search unavailable.">>
EXPLANATION_UNAVAILABLE == <<"Explanation unavailable.">>
DEFAULT_LINK == <<"https://kanoon.nearlaw.com/">>
DISCLAIMER ==
    <<"This AI analysis is for informational purposes only. Consult a lawyer for binding advice.">>

\* f"Legal term '{term}' identified."
term_identified(term) == <<"Legal term '">> \o term \o <<"' identified.">>

\* ---------------------------------------------- outcomes of a capability

\* One call of groq_llm.invoke or legal_search.invoke either raises or
\* returns; content = <<>> is a response that is None or has no content.
Raises == [raised |-> TRUE, content |-> <<>>]
Returns(text) == [raised |-> FALSE, content |-> text]

\* What a node (or a statement) hands back: a value, or an exception that
\* leaves it.
Ok(v) == [raised |-> FALSE, value |-> v]
Raise(v) == [raised |-> TRUE, value |-> v]

\* ------------------------------------------- the nodes, as pure functions

\* summarize_node: the summary written to the state
SummarizeNoCatch(chunks, llm) ==
    IF chunks = <<>> THEN Ok(NO_CONTENT_SUMMARY)
    ELSE IF llm.raised THEN Raise(<<>>)
    ELSE Ok(IF llm.content # <<>> THEN llm.content ELSE SUMMARY_FAILED)

SummarizeBlankOnFailure(chunks, llm) ==
    IF chunks = <<>> THEN Ok(NO_CONTENT_SUMMARY)
    ELSE IF llm.raised THEN Ok(<<>>)
    ELSE Ok(llm.content)

summarize_node(chunks, llm) ==
    IF chunks = <<>> THEN Ok(NO_CONTENT_SUMMARY)
    ELSE IF llm.raised THEN Ok(SUMMARY_ERROR)
    ELSE Ok(IF llm.content # <<>> THEN llm.content ELSE SUMMARY_FAILED)

\* identify_terms_node: the term list written to the state
identify_terms_node(chunks, llm) ==
    IF chunks = <<>> THEN Ok(<<>>)
    ELSE IF llm.raised THEN Ok(<<>>)
    ELSE IF llm.content = <<>> THEN Ok(<<>>)
    ELSE Ok(strip_nonempty(split(llm.content, COMMA)))

\* generate_report_node, lines 102-106: the search for one term
search_term(search) ==
    IF search.raised THEN SEARCH_UNAVAILABLE ELSE search.content

\* generate_report_node, lines 123-128: explanation and link out of a
\* non-empty response.  split(...)[1] of the source is the second piece, which
\* exists whenever the marker occurs, so no statement of the block raises on
\* a string.
ParseEitherMarker(content) ==
    IF Contains(content, EXPLANATION) \/ Contains(content, URL)
    THEN LET pieces == split(content, EXPLANATION)
             after == IF Len(pieces) > 1 THEN pieces[2] ELSE pieces[1]
             urls == split(content, URL)
         IN  Ok([explanation |-> strip(split(after, URL)[1]),
                 link |-> strip(urls[Len(urls)])])
    ELSE Ok([explanation |-> strip(content), link |-> DEFAULT_LINK])

ParseGenericFallback(content) ==
    IF Contains(content, EXPLANATION) /\ Contains(content, URL)
    THEN LET urls == split(content, URL)
         IN  Ok([explanation |->
                     strip(split(split(content, EXPLANATION)[2], URL)[1]),
                 link |-> strip(urls[Len(urls)])])
    ELSE Ok([explanation |-> EXPLANATION_UNAVAILABLE, link |-> DEFAULT_LINK])

parse_response(content) ==
    IF Contains(content, EXPLANATION) /\ Contains(content, URL)
    THEN LET urls == split(content, URL)
         IN  Ok([explanation |->
                     strip(split(split(content, EXPLANATION)[2], URL)[1]),
                 link |-> strip(urls[Len(urls)])])
    ELSE Ok([explanation |-> strip(content), link |-> DEFAULT_LINK])

\* generate_report_node, lines 118-140: the ExplainedTerm of one term
explain_term(term, llm) ==
    LET fallback == [explanation |-> EXPLANATION_UNAVAILABLE, link |-> DEFAULT_LINK]
        parsed ==
            IF llm.raised THEN fallback
            ELSE IF llm.content # <<>>
            THEN LET r == parse_response(llm.content)
                 IN  IF r.raised
                     THEN [explanation |-> term_identified(term), link |-> DEFAULT_LINK]
                     ELSE r.value
            ELSE fallback
    IN  Ok([term |-> term,
            explanation |-> parsed.explanation,
            resource_link |-> parsed.link])

\* generate_report_node, lines 142-152: the DemystifyReport
BuildReportReversed(summary_text, explained) ==
    [summary |-> summary_text,
     key_terms |-> [i \in 1..Len(explained) |-> explained[Len(explained) + 1 - i]],
     overall_advice |-> DISCLAIMER]

BuildReportAdviceOnSuccess(summary_text, explained) ==
    [summary |-> summary_text,
     key_terms |-> explained,
     overall_advice |-> IF summary_text = SUMMARY_ERROR THEN <<>> ELSE DISCLAIMER]

\* demystifier_agent.py:100-140: the body of the loop for one term; previous
\* holds explanation and link as the pass before left them (empty in the
\* first pass), which are still in scope
EnrichCarryOver(term, llm, previous) ==
    IF llm.raised /\ previous # {}
    THEN LET p == CHOOSE e \in previous : TRUE
         IN  Ok([term |-> term,
                 explanation |-> p.explanation,
                 resource_link |-> p.resource_link])
    ELSE explain_term(term, llm)

enrich(term, llm, previous) == explain_term(term, llm)

build_report(summary_text, explained) ==
    [summary |-> summary_text,
     key_terms |-> explained,
     overall_advice |-> DISCLAIMER]

\* ------------------------------------------- process_document, statements

\* The uploaded PDFs.  pages[i] is the list of chunks the splitter cuts out
\* of page i: a page without text gives no chunk.
CORRUPT_PDF == [readable |-> FALSE, pages |-> <<>>]
NO_PAGES_PDF == [readable |-> TRUE, pages |-> <<>>]
BLANK_PDF == [readable |-> TRUE, pages |-> << <<>> >>]
ONE_CHUNK_PDF == [readable |-> TRUE, pages |-> << <<"p1c1">> >>]
TWO_PAGE_PDF == [readable |-> TRUE, pages |-> << <<"q1c1", "q1c2">>, <<"q2c1">> >>]

FOUR_CHUNK_PDF == [readable |-> TRUE, pages |-> << <<"r1c1", "r1c2">>, <<"r2c1", "r2c2">> >>]
LONG_PDF ==
    [readable |-> TRUE,
     pages |-> << <<"s01", "s02", "s03", "s04", "s05", "s06">>,
                  <<"s07", "s08", "s09", "s10", "s11", "s12">> >>]

Pdfs == {CORRUPT_PDF, NO_PAGES_PDF, BLANK_PDF, ONE_CHUNK_PDF, TWO_PAGE_PDF}

\* the ValueError of line 185 and the errors of the libraries
EMPTY_DOCUMENT == "No content found in PDF."
LOADER_ERROR == "LoaderError"
EMBEDDING_ERROR == "EmbeddingError"
INDEX_ERROR == "IndexError"

\* lines 181-185: PyMuPDFLoader(file_path).load(), one Document per page, and
\* the check for content
load_documents(pdf) ==
    IF ~pdf.readable THEN Raise(LOADER_ERROR)
    ELSE IF pdf.pages = <<>> THEN Raise(EMPTY_DOCUMENT)
    ELSE Ok(pdf.pages)

\* lines 187-188: splitter.split_documents(documents), the chunks of every
\* page in order
RECURSIVE split_documents(_)
split_documents(documents) ==
    IF documents = <<>> THEN <<>>
    ELSE Head(documents) \o split_documents(Tail(documents))

\* k of the retriever, line 192
RETRIEVER_K == 3
\* chunks handed to the analysis graph, line 198
GRAPH_CHUNKS == 10

\* lines 191-193: FAISS.from_documents(chunks, embedding), as_retriever and
\* create_rag_chain.  The index is sized from the first embedding, so an
\* empty chunk list raises as a failing embedding call does.
BuildWithFourNeighbours(chunks, embedding_ok) ==
    IF ~embedding_ok THEN Raise(EMBEDDING_ERROR)
    ELSE IF chunks = <<>> THEN Raise(INDEX_ERROR)
    ELSE Ok([chunks |-> chunks, k |-> RETRIEVER_K + 1])

BuildAbsorbing(chunks, embedding_ok) ==
    IF ~embedding_ok \/ chunks = <<>>
    THEN Ok([chunks |-> <<>>, k |-> RETRIEVER_K])
    ELSE Ok([chunks |-> chunks, k |-> RETRIEVER_K])

build_rag_chain(chunks, embedding_ok) ==
    IF ~embedding_ok THEN Raise(EMBEDDING_ERROR)
    ELSE IF chunks = <<>> THEN Raise(INDEX_ERROR)
    ELSE Ok([chunks |-> chunks, k |-> RETRIEVER_K])

\* the questions of the chat
Questions == {"q1", "q2"}

\* the similarity search of the retriever: the chunks of the index from the
\* nearest to the question to the farthest, an order that the question and
\* the index settle
ranking(chunks, question) ==
    IF question = "q1" THEN chunks
    ELSE [i \in 1..Len(chunks) |-> chunks[Len(chunks) + 1 - i]]

\* retriever.invoke(question) with search_kwargs k
retrieve(chain, question) ==
    LET ranked == ranking(chain.chunks, question)
    IN  SubSeq(ranked, 1, IF Len(ranked) < chain.k THEN Len(ranked) ELSE chain.k)

\* lines 166-174, rag_chain.invoke(question) up to the prompt: the prompt,
\* none when the question cannot be embedded, and the chain as the call
\* leaves it
InvokeWithMemory(chain, question, embedding_ok) ==
    [prompt |-> IF embedding_ok
                THEN {[context |-> retrieve(chain, question), question |-> question]}
                ELSE {},
     chain |-> IF embedding_ok
               THEN [chain EXCEPT !.chunks = <<question>> \o chain.chunks]
               ELSE chain]

invoke_chain(chain, question, embedding_ok) ==
    [prompt |-> IF embedding_ok
                THEN {[context |-> retrieve(chain, question), question |-> question]}
                ELSE {},
     chain |-> chain]

\* A text is written as the list of its pieces, each a run of characters of
\* one chunk or of one separator, with the number of characters in the run.

\* chunk_size of the splitter, line 187: no chunk is longer
CHUNK_SIZE == 1000
\* the context of an enrichment prompt, line 110: document_context[:2000]
CONTEXT_CHARS == 2000
\* "\n\n", line 93
SEPARATOR == "\n\n"
SEPARATOR_CHARS == 2

\* len(chunk.page_content): the chunks of the short documents are short, the
\* others are full
page_content_len(chunk) ==
    IF chunk \in {"p1c1", "q1c1", "q1c2", "q2c1"} THEN 600 ELSE CHUNK_SIZE

\* Python: "\n\n".join(chunks)
RECURSIVE join_chunks(_)
join_chunks(chunks) ==
    IF chunks = <<>> THEN <<>>
    ELSE IF Len(chunks) = 1
    THEN <<[of |-> Head(chunks), chars |-> page_content_len(Head(chunks))]>>
    ELSE <<[of |-> Head(chunks), chars |-> page_content_len(Head(chunks))],
           [of |-> SEPARATOR, chars |-> SEPARATOR_CHARS]>> \o join_chunks(Tail(chunks))

\* Python: len(text)
RECURSIVE text_len(_)
text_len(text) ==
    IF text = <<>> THEN 0 ELSE Head(text).chars + text_len(Tail(text))

\* Python: text[:n]
RECURSIVE slice(_, _)
slice(text, n) ==
    IF text = <<>> \/ n <= 0 THEN <<>>
    ELSE IF Head(text).chars <= n
    THEN <<Head(text)>> \o slice(Tail(text), n - Head(text).chars)
    ELSE <<[of |-> Head(text).of, chars |-> n]>>

\* lines 92-93 and 110: the document context of the enrichment prompts
document_context(chunks) == slice(join_chunks(chunks), CONTEXT_CHARS)

\* line 198: chunk_contents[:10]
GraphInputAll(chunks) == chunks

graph_input(chunks) ==
    SubSeq(chunks, 1, IF Len(chunks) < GRAPH_CHUNKS THEN Len(chunks) ELSE GRAPH_CHUNKS)

\* ------------------------------------------------------- the legal agent

LEGAL_DOC_FAILED == <<"Error: Failed to generate contract.">>
LEGAL_DOC_ERROR == <<"Error: Failed to generate contract due to an internal error.">>
NO_TRIVIA == [trivia |-> <<>>]

\* legal_agent.py:36-53
LegalDocNoCatch(llm) ==
    IF llm.raised THEN Raise(<<>>)
    ELSE Ok(IF llm.content # <<>> THEN llm.content ELSE LEGAL_DOC_FAILED)

generate_legal_doc(llm) ==
    IF llm.raised THEN Ok(LEGAL_DOC_ERROR)
    ELSE Ok(IF llm.content # <<>> THEN llm.content ELSE LEGAL_DOC_FAILED)

\* legal_agent.py:73-77: the search, whose failure is replaced by a text
legal_search_results(search) ==
    IF search.raised THEN SEARCH_UNAVAILABLE ELSE search.content

\* legal_agent.py:55-85: chain is what prompt | llm | parser does with the
\* search results: it raises when the model fails and when the answer of
\* the model does not parse
get_legal_trivia(search_results, chain) ==
    IF chain.raised THEN Ok(NO_TRIVIA) ELSE Ok([trivia |-> chain.content])

\* legal_agent.py:88-94: the edges of the graph
legal_next_node(node) ==
    CASE node = "START" -> "generate_legal_doc"
      [] node = "generate_legal_doc" -> "get_legal_trivia"
      [] node = "get_legal_trivia" -> "END"

\* LegalAgentState before the first node
NEW_LEGAL_STATE == [legal_doc |-> {}, legal_trivia |-> {}]

\* one node of the graph, and the update it hands back
legal_node(node, state, caps) ==
    IF node = "generate_legal_doc"
    THEN LET r == generate_legal_doc(caps.doc_llm)
         IN  IF r.raised THEN Raise("LegalAgentError")
             ELSE Ok([state EXCEPT !.legal_doc = {r.value}])
    ELSE LET r == get_legal_trivia(legal_search_results(caps.search), caps.chain)
         IN  IF r.raised THEN Raise("LegalAgentError")
             ELSE Ok([state EXCEPT !.legal_trivia = {r.value}])

RECURSIVE legal_run(_, _, _)
legal_run(node, state, caps) ==
    IF node = "END" THEN Ok(state)
    ELSE LET r == legal_node(node, state, caps)
         IN  IF r.raised THEN r
             ELSE legal_run(legal_next_node(node), r.value, caps)

\* legal_agent.invoke
legal_agent(doc_llm, search, chain) ==
    legal_run(legal_next_node("START"), NEW_LEGAL_STATE,
              [doc_llm |-> doc_llm, search |-> search, chain |-> chain])

\* ------------------------------------------------ the names of the videos

UNDERSCORE == "_"

\* str(uuid.uuid4()): the text of a uuid, in which there is no underscore
UUID_TEXT == <<"u1", "u2", "u3", "u4", "u5", "u6", "u7", "u8">>
str(uuid) == UUID_TEXT[uuid]

\* main.py:604: f"consent_{contract_id}_{uuid.uuid4()}.mp4"
video_filename(contract_id, uuid) ==
    <<"consent", UNDERSCORE>> \o contract_id \o <<UNDERSCORE, str(uuid), ".mp4">>

\* main.py:343 and 640: f"consent_{contract_id}_"
video_prefix(contract_id) == <<"consent", UNDERSCORE>> \o contract_id \o <<UNDERSCORE>>

\* Python: s.startswith(prefix)
startswith(s, prefix) ==
    /\ Len(prefix) <= Len(s)
    /\ SubSeq(s, 1, Len(prefix)) = prefix

\* ------------------------------------------------------------------ state

VARIABLES
    SESSION_CACHE,        \* main.py:151, session id -> session record
    files,                \* the paths that exist under pdfs_demystify/
    uuids,                \* how many values uuid.uuid4() has handed out
    uploads,              \* uploads accepted so far
    deleted,              \* history: the session ids a delete has removed
    response,             \* the response to the last request
    pc,                   \* the statement the running upload is at, or "idle"
    pdf,                  \* demystify_upload: the uploaded file
    file_path,            \* demystify_upload: where it was written, 0 before
    exc,                  \* the exception on its way to the handler's except
    documents,            \* process_document: loader.load()
    chunks,               \* process_document: the splitter's chunks
    rag_chain,            \* process_document: the chain, {} before it is built
    document_chunks,      \* DemystifyState
    summary,              \* DemystifyState, {} while the key is not set
    identified_terms,     \* DemystifyState
    final_report,         \* DemystifyState, {} while the key is not set
    explained_terms_list, \* generate_report_node: the list being built
    search_results,       \* generate_report_node: the last search result
    content,              \* generate_report_node: the last non-empty response
    summary_response,     \* history: how groq_llm.invoke ended in summarize_node
    terms_response,       \* history: how it ended in identify_terms_node
    term_responses,       \* history: how it ended for each term of the loop
    any_order,            \* the terms enriched again, in an order of their own
    prompts,              \* history: <<session id, question, prompt built>>
    created_from,         \* history: session id -> the pdf it was created from
    inflight,             \* the requests that came in side by side, each with where its handler is
    term_prompt,          \* generate_report_node: the prompt of the last pass of the loop
    upload_file,          \* demystify_upload: content type and size of the file of the request
    CONTRACT_CACHE,       \* main.py:152, contract id -> contract record
    videos,               \* the files of the directory video_consents
    video_owner,          \* history: video file -> the contract_id it was uploaded with
    contracts_deleted,    \* history: the contract ids deleted so far
    legal_pc,             \* the node the contract agent is about to run
    legal_state,          \* LegalAgentState: legal_doc and legal_trivia, each unset or set
    legal_caps,           \* history: what the model, the search and the trivia chain do in this run
    legal_order,          \* history: the nodes run, in order
    legal_prompt,         \* history: the search results handed to the trivia chain
    client,               \* general_assistant_agent.py:9-14, FALSE for None
    gem_pc,               \* where the running ask_gemini is, or "idle"
    attempt,              \* ask_gemini: the loop variable
    outcomes,             \* history: how each generate_content call ended
    sleeps,               \* history: the time.sleep calls of ask_gemini
    answer                \* ask_gemini: the string returned

server_vars == <<SESSION_CACHE, files, uuids, uploads, deleted, response>>
upload_vars == <<pdf, file_path, exc, documents, chunks, rag_chain>>
graph_vars == <<document_chunks, summary, identified_terms, final_report,
                explained_terms_list, search_results, content,
                summary_response, terms_response, term_responses>>

vars == <<SESSION_CACHE, files, uuids, uploads, deleted, response, pc,
          pdf, file_path, exc, documents, chunks, rag_chain,
          document_chunks, summary, identified_terms, final_report,
          explained_terms_list, search_results, content,
          summary_response, terms_response, term_responses, any_order, prompts,
          created_from,
          inflight,
          term_prompt,
          upload_file,
          CONTRACT_CACHE,
          videos,
          video_owner,
          contracts_deleted,
          legal_pc,
          legal_state,
          legal_caps,
          legal_order,
          legal_prompt,
          client, gem_pc, attempt, outcomes, sleeps, answer>>

gemini_vars == <<client, gem_pc, attempt, outcomes, sleeps, answer>>

\* uuid.uuid4(): a value no earlier call has returned
UuidReused(n) == 1

uuid4(n) == n + 1

\* the session ids a client may send: every id the server can hand out, and
\* 0, which it never hands out
SessionIds == 0..(2 * MaxUploads)

\* SESSION_CACHE = {}
EMPTY_CACHE == [sid \in {} |-> [rag_chain |-> {}, file_path |-> 0]]

NO_FILE == [content_type |-> "", size |-> 0]

NO_RESPONSE ==
    [endpoint |-> "", status |-> 0, detail |-> "", session_id |-> 0,
     report |-> {}, invoked |-> {}, sessions |-> {}, prompt |-> {}]

Respond(endpoint, status, detail, sid) ==
    [endpoint |-> endpoint, status |-> status, detail |-> detail,
     session_id |-> sid, report |-> {}, invoked |-> {}, sessions |-> {}, prompt |-> {}]

\* the locals of a request do not outlive it
UploadReset ==
    /\ pdf' = CORRUPT_PDF
    /\ file_path' = 0
    /\ exc' = ""
    /\ documents' = <<>>
    /\ chunks' = <<>>
    /\ rag_chain' = {}
    /\ upload_file' = NO_FILE

GraphReset ==
    /\ document_chunks' = <<>>
    /\ summary' = {}
    /\ identified_terms' = <<>>
    /\ final_report' = {}
    /\ explained_terms_list' = <<>>
    /\ search_results' = <<>>
    /\ content' = <<>>
    /\ summary_response' = {}
    /\ terms_response' = {}
    /\ term_responses' = <<>>
    /\ term_prompt' = {}

Init ==
    /\ SESSION_CACHE = EMPTY_CACHE
    /\ files = {}
    /\ uuids = 0
    /\ uploads = 0
    /\ deleted = {}
    /\ response = NO_RESPONSE
    /\ pc = "idle"
    /\ pdf = CORRUPT_PDF
    /\ file_path = 0
    /\ exc = ""
    /\ documents = <<>>
    /\ chunks = <<>>
    /\ rag_chain = {}
    /\ document_chunks = <<>>
    /\ summary = {}
    /\ identified_terms = <<>>
    /\ final_report = {}
    /\ explained_terms_list = <<>>
    /\ search_results = <<>>
    /\ content = <<>>
    /\ summary_response = {}
    /\ terms_response = {}
    /\ term_responses = <<>>
    /\ any_order = <<>>
    /\ prompts = {}
    /\ created_from = <<>>
    /\ inflight = <<>>
    /\ term_prompt = {}
    /\ upload_file = NO_FILE
    /\ CONTRACT_CACHE = <<>>
    /\ videos = {}
    /\ video_owner = <<>>
    /\ contracts_deleted = {}
    /\ legal_pc = "idle"
    /\ legal_state = [legal_doc |-> {}, legal_trivia |-> {}]
    /\ legal_caps = [doc_llm |-> Raises, search |-> Raises, chain |-> Raises]
    /\ legal_order = <<>>
    /\ legal_prompt = {}
    /\ client = TRUE
    /\ gem_pc = "idle"
    /\ attempt = 0
    /\ outcomes = <<>>
    /\ sleeps = <<>>
    /\ answer = ""

\* ----------------------------------------- what the capabilities may answer

CONTENT_TYPES == {"application/pdf", "text/plain"}
\* 50 * 1024 * 1024, main.py:414
MAX_UPLOAD_BYTES == 52428800
\* file.size: unknown (None or 0), within the limit, over it
UPLOAD_SIZES == {0, MAX_UPLOAD_BYTES, MAX_UPLOAD_BYTES + 1}
\* the two ends of it
FEW_UPLOAD_SIZES == {0, MAX_UPLOAD_BYTES + 1}

SummaryOutcomes == {Raises, Returns(<<>>), Returns(<<"x">>)}
SearchOutcomes == {Raises, Returns(<<"results">>)}

WELL_FORMED == <<EXPLANATION, "x", URL, "x">>

\* one term found or none; a well-formed explanation or none
FewTermOutcomes == {Raises, Returns(<<"a">>)}
FewContentOutcomes == {Raises, Returns(WELL_FORMED)}

\* every response of up to MaxFields comma-separated fields
TermFields == {<<>>, <<"a">>, <<SPACE, "b">>}
FieldLists == UNION {[1..n -> TermFields] : n \in 0..MaxFields}
AllTermOutcomes == {Raises} \cup {Returns(join(fs, COMMA)) : fs \in FieldLists}

\* every response of up to MaxContentLen tokens, and the response asked for
ContentAlphabet == {EXPLANATION, URL, SPACE, "x"}
AllContentOutcomes ==
    {Raises, Returns(WELL_FORMED)}
        \cup {Returns(c) : c \in StringsUpTo(ContentAlphabet, MaxContentLen)}

\* demystifier_agent.py:159-162: the edges of the graph, START and END
\* included; "graph_end" is END, where invoke returns
EdgesSkipIdentify(node) ==
    CASE node = "START" -> "summarize"
      [] node = "summarize" -> "generate_report"
      [] node = "identify_terms" -> "generate_report"
      [] node = "generate_report" -> "graph_end"

next_node(node) ==
    CASE node = "START" -> "summarize"
      [] node = "summarize" -> "identify_terms"
      [] node = "identify_terms" -> "generate_report"
      [] node = "generate_report" -> "graph_end"

\* ------------------------------------------------------------ the upload

\* an exception leaves the statement at pc: the next statement run is the
\* except clause of demystify_upload
\* main.py:411-415: the two checks of the request, before the try
ValidateTypeOnly(content_type, size) ==
    IF content_type # "application/pdf"
    THEN Raise("Invalid file type. Please upload a PDF.")
    ELSE Ok("")

validate_upload(content_type, size) ==
    IF content_type # "application/pdf"
    THEN Raise("Invalid file type. Please upload a PDF.")
    ELSE IF size # 0 /\ size > MAX_UPLOAD_BYTES
    THEN Raise("File too large. Maximum size is 50MB.")
    ELSE Ok("")

Throw(kind) ==
    /\ pc' = "raised"
    /\ exc' = kind

\* main.py:411-426: the request is checked and the file written
demystify_upload(limit, pdfs, sizes) ==
    /\ pc = "idle"
    /\ uploads < limit
    /\ \E f \in pdfs, content_type \in CONTENT_TYPES, size \in sizes :
        /\ upload_file' = [content_type |-> content_type, size |-> size]
        /\ IF validate_upload(content_type, size).raised
           THEN /\ response' = Respond("upload", 400, validate_upload(content_type, size).value, 0)
                /\ UNCHANGED <<SESSION_CACHE, files, uuids, uploads, deleted, pc>>
                /\ UNCHANGED upload_vars
           ELSE /\ uploads' = uploads + 1
                /\ uuids' = uuids + 1
                /\ file_path' = uuid4(uuids)
                /\ files' = files \cup {uuid4(uuids)}
                /\ pdf' = f
                /\ pc' = "load"
                /\ response' = NO_RESPONSE
                /\ UNCHANGED <<SESSION_CACHE, deleted, exc, documents, chunks, rag_chain>>
    /\ UNCHANGED graph_vars
    /\ UNCHANGED gemini_vars
    /\ UNCHANGED any_order
    /\ UNCHANGED prompts
    /\ UNCHANGED created_from
    /\ UNCHANGED inflight
    /\ UNCHANGED term_prompt
    /\ UNCHANGED CONTRACT_CACHE
    /\ UNCHANGED videos
    /\ UNCHANGED video_owner
    /\ UNCHANGED contracts_deleted
    /\ UNCHANGED legal_pc
    /\ UNCHANGED legal_state
    /\ UNCHANGED legal_caps
    /\ UNCHANGED legal_order
    /\ UNCHANGED legal_prompt

\* demystifier_agent.py:181-185
load ==
    /\ pc = "load"
    /\ LET r == load_documents(pdf)
       IN  IF r.raised
           THEN /\ Throw(r.value)
                /\ UNCHANGED documents
           ELSE /\ documents' = r.value
                /\ pc' = "split"
                /\ UNCHANGED exc
    /\ UNCHANGED <<pdf, file_path, chunks, rag_chain>>
    /\ UNCHANGED server_vars
    /\ UNCHANGED graph_vars
    /\ UNCHANGED gemini_vars
    /\ UNCHANGED any_order
    /\ UNCHANGED prompts
    /\ UNCHANGED created_from
    /\ UNCHANGED inflight
    /\ UNCHANGED term_prompt
    /\ UNCHANGED upload_file
    /\ UNCHANGED CONTRACT_CACHE
    /\ UNCHANGED videos
    /\ UNCHANGED video_owner
    /\ UNCHANGED contracts_deleted
    /\ UNCHANGED legal_pc
    /\ UNCHANGED legal_state
    /\ UNCHANGED legal_caps
    /\ UNCHANGED legal_order
    /\ UNCHANGED legal_prompt

\* demystifier_agent.py:187-188
split_chunks ==
    /\ pc = "split"
    /\ chunks' = split_documents(documents)
    /\ pc' = "index"
    /\ UNCHANGED <<pdf, file_path, exc, documents, rag_chain>>
    /\ UNCHANGED server_vars
    /\ UNCHANGED graph_vars
    /\ UNCHANGED gemini_vars
    /\ UNCHANGED any_order
    /\ UNCHANGED prompts
    /\ UNCHANGED created_from
    /\ UNCHANGED inflight
    /\ UNCHANGED term_prompt
    /\ UNCHANGED upload_file
    /\ UNCHANGED CONTRACT_CACHE
    /\ UNCHANGED videos
    /\ UNCHANGED video_owner
    /\ UNCHANGED contracts_deleted
    /\ UNCHANGED legal_pc
    /\ UNCHANGED legal_state
    /\ UNCHANGED legal_caps
    /\ UNCHANGED legal_order
    /\ UNCHANGED legal_prompt

\* demystifier_agent.py:190-198
index ==
    /\ pc = "index"
    /\ \E embedding_ok \in BOOLEAN :
        LET r == build_rag_chain(chunks, embedding_ok)
        IN  IF r.raised
            THEN /\ Throw(r.value)
                 /\ UNCHANGED <<rag_chain, document_chunks>>
            ELSE /\ rag_chain' = {r.value}
                 /\ document_chunks' = graph_input(chunks)
                 /\ pc' = next_node("START")
                 /\ UNCHANGED exc
    /\ UNCHANGED <<pdf, file_path, documents, chunks>>
    /\ UNCHANGED server_vars
    /\ UNCHANGED <<summary, identified_terms, final_report,
                   explained_terms_list, search_results, content>>
    /\ UNCHANGED gemini_vars
    /\ UNCHANGED <<summary_response, terms_response, term_responses>>
    /\ UNCHANGED any_order
    /\ UNCHANGED prompts
    /\ UNCHANGED created_from
    /\ UNCHANGED inflight
    /\ UNCHANGED term_prompt
    /\ UNCHANGED upload_file
    /\ UNCHANGED CONTRACT_CACHE
    /\ UNCHANGED videos
    /\ UNCHANGED video_owner
    /\ UNCHANGED contracts_deleted
    /\ UNCHANGED legal_pc
    /\ UNCHANGED legal_state
    /\ UNCHANGED legal_caps
    /\ UNCHANGED legal_order
    /\ UNCHANGED legal_prompt

\* --------------------------------------------------- the analysis graph

\* an exception that leaves a node leaves demystifier_agent_graph.invoke
GRAPH_ERROR == "GraphError"

\* demystifier_agent.py:45-61 (graph edge START -> summarize)
summarize ==
    /\ pc = "summarize"
    /\ \E llm \in SummaryOutcomes :
        LET r == summarize_node(document_chunks, llm)
        IN  /\ summary_response' = IF document_chunks = <<>> THEN {} ELSE {llm}
            /\ IF r.raised
               THEN /\ Throw(GRAPH_ERROR)
                    /\ UNCHANGED summary
               ELSE /\ summary' = {r.value}
                    /\ pc' = next_node("summarize")
                    /\ UNCHANGED exc
    /\ UNCHANGED <<pdf, file_path, documents, chunks, rag_chain>>
    /\ UNCHANGED server_vars
    /\ UNCHANGED <<document_chunks, identified_terms, final_report,
                   explained_terms_list, search_results, content>>
    /\ UNCHANGED gemini_vars
    /\ UNCHANGED <<terms_response, term_responses>>
    /\ UNCHANGED any_order
    /\ UNCHANGED prompts
    /\ UNCHANGED created_from
    /\ UNCHANGED inflight
    /\ UNCHANGED term_prompt
    /\ UNCHANGED upload_file
    /\ UNCHANGED CONTRACT_CACHE
    /\ UNCHANGED videos
    /\ UNCHANGED video_owner
    /\ UNCHANGED contracts_deleted
    /\ UNCHANGED legal_pc
    /\ UNCHANGED legal_state
    /\ UNCHANGED legal_caps
    /\ UNCHANGED legal_order
    /\ UNCHANGED legal_prompt

\* demystifier_agent.py:63-84 (graph edge summarize -> identify_terms)
identify_terms(answers) ==
    /\ pc = "identify_terms"
    /\ \E llm \in answers :
        LET r == identify_terms_node(document_chunks, llm)
        IN  /\ terms_response' = IF document_chunks = <<>> THEN {} ELSE {llm}
            /\ IF r.raised
               THEN /\ Throw(GRAPH_ERROR)
                    /\ UNCHANGED identified_terms
               ELSE /\ identified_terms' = r.value
                    /\ pc' = next_node("identify_terms")
                    /\ UNCHANGED exc
    /\ UNCHANGED <<pdf, file_path, documents, chunks, rag_chain>>
    /\ UNCHANGED server_vars
    /\ UNCHANGED <<document_chunks, summary, final_report,
                   explained_terms_list, search_results, content>>
    /\ UNCHANGED gemini_vars
    /\ UNCHANGED <<summary_response, term_responses>>
    /\ UNCHANGED any_order
    /\ UNCHANGED prompts
    /\ UNCHANGED created_from
    /\ UNCHANGED inflight
    /\ UNCHANGED term_prompt
    /\ UNCHANGED upload_file
    /\ UNCHANGED CONTRACT_CACHE
    /\ UNCHANGED videos
    /\ UNCHANGED video_owner
    /\ UNCHANGED contracts_deleted
    /\ UNCHANGED legal_pc
    /\ UNCHANGED legal_state
    /\ UNCHANGED legal_caps
    /\ UNCHANGED legal_order
    /\ UNCHANGED legal_prompt

\* demystifier_agent.py:100-140: one pass of the loop over the terms
generate_report_term(answers) ==
    /\ pc = "generate_report"
    /\ Len(explained_terms_list) < Len(identified_terms)
    /\ \E search \in SearchOutcomes, llm \in answers :
        LET term == identified_terms[Len(explained_terms_list) + 1]
            r == enrich(term, llm, IF explained_terms_list = <<>> THEN {}
                                   ELSE {explained_terms_list[Len(explained_terms_list)]})
        IN  /\ search_results' = search_term(search)
            /\ term_responses' = Append(term_responses, llm)
            /\ term_prompt' = {[term |-> term,
                                context |-> document_context(document_chunks),
                                search_results |-> search_term(search)]}
            /\ content' = IF ~llm.raised /\ llm.content # <<>> THEN llm.content ELSE content
            /\ IF r.raised
               THEN /\ Throw(GRAPH_ERROR)
                    /\ UNCHANGED explained_terms_list
               ELSE /\ explained_terms_list' = Append(explained_terms_list, r.value)
                    /\ UNCHANGED <<pc, exc>>
    /\ UNCHANGED <<pdf, file_path, documents, chunks, rag_chain>>
    /\ UNCHANGED server_vars
    /\ UNCHANGED <<document_chunks, summary, identified_terms, final_report>>
    /\ UNCHANGED gemini_vars
    /\ UNCHANGED <<summary_response, terms_response>>
    /\ UNCHANGED any_order
    /\ UNCHANGED prompts
    /\ UNCHANGED created_from
    /\ UNCHANGED inflight
    /\ UNCHANGED upload_file
    /\ UNCHANGED CONTRACT_CACHE
    /\ UNCHANGED videos
    /\ UNCHANGED video_owner
    /\ UNCHANGED contracts_deleted
    /\ UNCHANGED legal_pc
    /\ UNCHANGED legal_state
    /\ UNCHANGED legal_caps
    /\ UNCHANGED legal_order
    /\ UNCHANGED legal_prompt

\* demystifier_agent.py:100-140 run out of turn: a term the loop has had is
\* enriched once more, after any other such term, with the answer the loop
\* got for it
enrich_any_order ==
    /\ pc = "generate_report"
    /\ \E i \in 1..Len(term_responses) :
        /\ \A k \in 1..Len(any_order) : any_order[k].index # i
        /\ LET r == enrich(identified_terms[i], term_responses[i],
                           IF any_order = <<>> THEN {}
                           ELSE {any_order[Len(any_order)].entry})
           IN  /\ ~r.raised
               /\ any_order' = Append(any_order, [index |-> i, entry |-> r.value])
    /\ UNCHANGED <<pc, summary_response, terms_response, term_responses>>
    /\ UNCHANGED upload_vars
    /\ UNCHANGED server_vars
    /\ UNCHANGED <<document_chunks, summary, identified_terms, final_report,
                   explained_terms_list, search_results, content>>
    /\ UNCHANGED gemini_vars
    /\ UNCHANGED prompts
    /\ UNCHANGED created_from
    /\ UNCHANGED inflight
    /\ UNCHANGED term_prompt
    /\ UNCHANGED upload_file
    /\ UNCHANGED CONTRACT_CACHE
    /\ UNCHANGED videos
    /\ UNCHANGED video_owner
    /\ UNCHANGED contracts_deleted
    /\ UNCHANGED legal_pc
    /\ UNCHANGED legal_state
    /\ UNCHANGED legal_caps
    /\ UNCHANGED legal_order
    /\ UNCHANGED legal_prompt

\* demystifier_agent.py:142-152 (graph edge generate_report -> END)
generate_report_end ==
    /\ pc = "generate_report"
    /\ Len(explained_terms_list) = Len(identified_terms)
    /\ LET summary_text ==
               IF summary = {} THEN SUMMARY_UNAVAILABLE ELSE CHOOSE t \in summary : TRUE
       IN  final_report' = {build_report(summary_text, explained_terms_list)}
    /\ pc' = next_node("generate_report")
    /\ UNCHANGED upload_vars
    /\ UNCHANGED server_vars
    /\ UNCHANGED <<document_chunks, summary, identified_terms,
                   explained_terms_list, search_results, content>>
    /\ UNCHANGED gemini_vars
    /\ UNCHANGED <<summary_response, terms_response, term_responses>>
    /\ UNCHANGED any_order
    /\ UNCHANGED prompts
    /\ UNCHANGED created_from
    /\ UNCHANGED inflight
    /\ UNCHANGED term_prompt
    /\ UNCHANGED upload_file
    /\ UNCHANGED CONTRACT_CACHE
    /\ UNCHANGED videos
    /\ UNCHANGED video_owner
    /\ UNCHANGED contracts_deleted
    /\ UNCHANGED legal_pc
    /\ UNCHANGED legal_state
    /\ UNCHANGED legal_caps
    /\ UNCHANGED legal_order
    /\ UNCHANGED legal_prompt

\* ------------------------------------------------- the end of the upload

\* demystifier_agent.py:200-203 and main.py:431-449: the report and the chain
\* are returned, the session is stored under a new uuid
register ==
    /\ pc = "graph_end"
    /\ LET session_id == uuid4(uuids)
       IN  /\ uuids' = uuids + 1
           /\ SESSION_CACHE' =
                  [sid \in DOMAIN SESSION_CACHE \cup {session_id} |->
                      IF sid = session_id
                      THEN [rag_chain |-> rag_chain, file_path |-> file_path]
                      ELSE SESSION_CACHE[sid]]
           /\ response' =
                  [Respond("upload", 200, "Document uploaded and analyzed successfully",
                           session_id) EXCEPT !.report = final_report]
    /\ created_from' =
           [sid \in DOMAIN created_from \cup {uuid4(uuids)} |->
               IF sid = uuid4(uuids) THEN pdf ELSE created_from[sid]]
    /\ pc' = "idle"
    /\ UploadReset
    /\ GraphReset
    /\ UNCHANGED <<files, uploads, deleted>>
    /\ UNCHANGED gemini_vars
    /\ UNCHANGED any_order
    /\ UNCHANGED prompts
    /\ UNCHANGED inflight
    /\ UNCHANGED CONTRACT_CACHE
    /\ UNCHANGED videos
    /\ UNCHANGED video_owner
    /\ UNCHANGED contracts_deleted
    /\ UNCHANGED legal_pc
    /\ UNCHANGED legal_state
    /\ UNCHANGED legal_caps
    /\ UNCHANGED legal_order
    /\ UNCHANGED legal_prompt

\* main.py:450-452
upload_except ==
    /\ pc = "raised"
    /\ response' = Respond("upload", 500, exc, 0)
    /\ pc' = "idle"
    /\ UploadReset
    /\ GraphReset
    /\ UNCHANGED <<SESSION_CACHE, files, uuids, uploads, deleted>>
    /\ UNCHANGED gemini_vars
    /\ UNCHANGED any_order
    /\ UNCHANGED prompts
    /\ UNCHANGED created_from
    /\ UNCHANGED inflight
    /\ UNCHANGED CONTRACT_CACHE
    /\ UNCHANGED videos
    /\ UNCHANGED video_owner
    /\ UNCHANGED contracts_deleted
    /\ UNCHANGED legal_pc
    /\ UNCHANGED legal_state
    /\ UNCHANGED legal_caps
    /\ UNCHANGED legal_order
    /\ UNCHANGED legal_prompt

\* ------------------------------------------------- the other endpoints

NOT_FOUND == "Session not found. Please upload the document again."

\* main.py:158-163
LookupAny(cache, session_id) ==
    IF cache = EMPTY_CACHE
    THEN Raise(NOT_FOUND)
    ELSE IF session_id \in DOMAIN cache
    THEN Ok(cache[session_id])
    ELSE Ok(cache[CHOOSE sid \in DOMAIN cache : TRUE])

get_session_data(cache, session_id) ==
    IF session_id \in DOMAIN cache
    THEN Ok(cache[session_id])
    ELSE Raise(NOT_FOUND)

\* main.py:454-488
demystify_chat ==
    /\ pc = "idle"
    /\ \E session_id \in SessionIds, question \in Questions, embedding_ok \in BOOLEAN,
          llm \in {Raises, Returns(<<"answer">>)} :
        LET r == get_session_data(SESSION_CACHE, session_id)
        IN  IF r.raised
            THEN /\ response' = Respond("chat", 404, r.value, session_id)
                 /\ UNCHANGED <<SESSION_CACHE, prompts>>
            ELSE LET chain == CHOOSE c \in r.value.rag_chain : TRUE
                     run == invoke_chain(chain, question, embedding_ok)
                 IN  /\ SESSION_CACHE' =
                            [sid \in DOMAIN SESSION_CACHE |->
                                IF sid = session_id
                                THEN [SESSION_CACHE[sid] EXCEPT !.rag_chain = {run.chain}]
                                ELSE SESSION_CACHE[sid]]
                     /\ prompts' = prompts \cup {<<session_id, question, p>> : p \in run.prompt}
                     /\ response' =
                            [Respond("chat",
                                     IF run.prompt = {} \/ llm.raised THEN 500 ELSE 200,
                                     IF run.prompt = {} \/ llm.raised
                                     THEN "Chat processing failed"
                                     ELSE "Question answered successfully",
                                     session_id)
                                EXCEPT !.invoked = r.value.rag_chain,
                                       !.prompt = run.prompt]
    /\ UNCHANGED <<files, uuids, uploads, deleted, pc>>
    /\ UNCHANGED upload_vars
    /\ UNCHANGED graph_vars
    /\ UNCHANGED gemini_vars
    /\ UNCHANGED any_order
    /\ UNCHANGED created_from
    /\ UNCHANGED inflight
    /\ UNCHANGED term_prompt
    /\ UNCHANGED upload_file
    /\ UNCHANGED CONTRACT_CACHE
    /\ UNCHANGED videos
    /\ UNCHANGED video_owner
    /\ UNCHANGED contracts_deleted
    /\ UNCHANGED legal_pc
    /\ UNCHANGED legal_state
    /\ UNCHANGED legal_caps
    /\ UNCHANGED legal_order
    /\ UNCHANGED legal_prompt

\* main.py:490-505
list_demystify_sessions ==
    /\ pc = "idle"
    /\ response' =
           [Respond("list", 200, "active session(s)", 0)
               EXCEPT !.sessions = DOMAIN SESSION_CACHE]
    /\ UNCHANGED <<SESSION_CACHE, files, uuids, uploads, deleted, pc>>
    /\ UNCHANGED upload_vars
    /\ UNCHANGED graph_vars
    /\ UNCHANGED gemini_vars
    /\ UNCHANGED any_order
    /\ UNCHANGED prompts
    /\ UNCHANGED created_from
    /\ UNCHANGED inflight
    /\ UNCHANGED term_prompt
    /\ UNCHANGED upload_file
    /\ UNCHANGED CONTRACT_CACHE
    /\ UNCHANGED videos
    /\ UNCHANGED video_owner
    /\ UNCHANGED contracts_deleted
    /\ UNCHANGED legal_pc
    /\ UNCHANGED legal_state
    /\ UNCHANGED legal_caps
    /\ UNCHANGED legal_order
    /\ UNCHANGED legal_prompt

\* main.py:512-518: the record and the file go
RemoveRecordOnly(cache, paths, session_id, session_data) ==
    [cache |-> [sid \in DOMAIN cache \ {session_id} |-> cache[sid]],
     files |-> paths]

RemoveFileOnly(cache, paths, session_id, session_data) ==
    [cache |-> cache,
     files |-> paths \ {session_data.file_path}]

RemoveEverySession(cache, paths, session_id, session_data) ==
    [cache |-> EMPTY_CACHE,
     files |-> {}]

remove_session(cache, paths, session_id, session_data) ==
    [cache |-> [sid \in DOMAIN cache \ {session_id} |-> cache[sid]],
     files |-> IF session_data.file_path # 0 /\ session_data.file_path \in paths
               THEN paths \ {session_data.file_path}
               ELSE paths]

\* main.py:507-523
delete_demystify_session ==
    /\ pc = "idle"
    /\ \E session_id \in SessionIds :
        LET r == get_session_data(SESSION_CACHE, session_id)
        IN  IF r.raised
            THEN /\ response' = Respond("delete", 404, r.value, session_id)
                 /\ UNCHANGED <<SESSION_CACHE, files, deleted>>
            ELSE LET after == remove_session(SESSION_CACHE, files, session_id, r.value)
                 IN  /\ SESSION_CACHE' = after.cache
                     /\ files' = after.files
                     /\ deleted' = deleted \cup {session_id}
                     /\ response' =
                            Respond("delete", 200,
                                    "Session and associated files deleted successfully",
                                    session_id)
    /\ UNCHANGED <<uuids, uploads, pc>>
    /\ UNCHANGED upload_vars
    /\ UNCHANGED graph_vars
    /\ UNCHANGED gemini_vars
    /\ UNCHANGED any_order
    /\ UNCHANGED prompts
    /\ UNCHANGED created_from
    /\ UNCHANGED inflight
    /\ UNCHANGED term_prompt
    /\ UNCHANGED upload_file
    /\ UNCHANGED CONTRACT_CACHE
    /\ UNCHANGED videos
    /\ UNCHANGED video_owner
    /\ UNCHANGED contracts_deleted
    /\ UNCHANGED legal_pc
    /\ UNCHANGED legal_state
    /\ UNCHANGED legal_caps
    /\ UNCHANGED legal_order
    /\ UNCHANGED legal_prompt

\* ------------------------------------------- requests side by side

\* The handlers are coroutines of one event loop (main.py:704-705): a handler
\* that has started runs until it awaits or returns.  AWAITS is the set of
\* handlers that await between the lookup of the session and the use of it:
\* none does (main.py:469-474, 510-518).
AwaitAfterLookup == {"delete", "chat"}

AWAITS == {}

RACING_KINDS == {"delete", "chat"}
\* the ids asked for: the one the first upload's session gets, and one that
\* no session has
RACING_IDS == {uuid4(0), uuid4(uuid4(0))}

\* a request comes in, whatever the server is doing
request_arrives ==
    /\ Len(inflight) < MaxRequests
    /\ \E kind \in RACING_KINDS, session_id \in RACING_IDS :
        inflight' = Append(inflight,
                           [kind |-> kind, session_id |-> session_id, at |-> "pending",
                            session_data |-> {}, status |-> 0, unhandled |-> FALSE,
                            invoked |-> {}])
    /\ UNCHANGED <<pc, created_from, prompts, any_order>>
    /\ UNCHANGED server_vars
    /\ UNCHANGED upload_vars
    /\ UNCHANGED graph_vars
    /\ UNCHANGED gemini_vars
    /\ UNCHANGED term_prompt
    /\ UNCHANGED upload_file
    /\ UNCHANGED CONTRACT_CACHE
    /\ UNCHANGED videos
    /\ UNCHANGED video_owner
    /\ UNCHANGED contracts_deleted
    /\ UNCHANGED legal_pc
    /\ UNCHANGED legal_state
    /\ UNCHANGED legal_caps
    /\ UNCHANGED legal_order
    /\ UNCHANGED legal_prompt

\* main.py:510-518 (delete) and main.py:472-474 (chat): the handler of
\* request n from after its lookup to its return
finish_request(n, session_data) ==
    LET req == inflight[n]
        session_id == req.session_id
    IN  IF req.kind = "delete"
        THEN IF session_id \in DOMAIN SESSION_CACHE
             THEN LET after == remove_session(SESSION_CACHE, files, session_id, session_data)
                  IN  /\ SESSION_CACHE' = after.cache
                      /\ files' = after.files
                      /\ deleted' = deleted \cup {session_id}
                      /\ response' =
                             Respond("delete", 200,
                                     "Session and associated files deleted successfully",
                                     session_id)
                      /\ inflight' = [inflight EXCEPT ![n].at = "done", ![n].status = 200,
                                                      ![n].session_data = {}]
                      /\ UNCHANGED prompts
             ELSE \* del SESSION_CACHE[session_id] raises KeyError, which nothing catches
                  /\ response' = Respond("delete", 500, "Internal Server Error", session_id)
                  /\ inflight' = [inflight EXCEPT ![n].at = "done", ![n].status = 500,
                                                  ![n].unhandled = TRUE,
                                                  ![n].session_data = {}]
                  /\ UNCHANGED <<SESSION_CACHE, files, deleted, prompts>>
        ELSE \E question \in Questions, embedding_ok \in BOOLEAN,
                llm \in {Raises, Returns(<<"answer">>)} :
             LET chain == CHOOSE c \in session_data.rag_chain : TRUE
                 run == invoke_chain(chain, question, embedding_ok)
                 failed == run.prompt = {} \/ llm.raised
             IN  /\ SESSION_CACHE' =
                        [sid \in DOMAIN SESSION_CACHE |->
                            IF sid = session_id
                            THEN [SESSION_CACHE[sid] EXCEPT !.rag_chain = {run.chain}]
                            ELSE SESSION_CACHE[sid]]
                 /\ prompts' = prompts \cup {<<session_id, question, p>> : p \in run.prompt}
                 /\ response' =
                        [Respond("chat", IF failed THEN 500 ELSE 200,
                                 IF failed THEN "Chat processing failed"
                                 ELSE "Question answered successfully",
                                 session_id)
                            EXCEPT !.invoked = session_data.rag_chain,
                                   !.prompt = run.prompt]
                 /\ inflight' = [inflight EXCEPT ![n].at = "done",
                                                 ![n].status = IF failed THEN 500 ELSE 200,
                                                 ![n].invoked = {session_data},
                                                 ![n].session_data = {}]
                 /\ UNCHANGED <<files, deleted>>

\* the event loop is free and runs the handler of a request: from its start,
\* get_session_data (main.py:158-163) and then the rest of the handler
\* unless it awaits there, or on from where it awaited
serve_request ==
    /\ pc = "idle"
    /\ \E n \in 1..Len(inflight) :
        /\ inflight[n].at # "done"
        /\ IF inflight[n].at = "pending"
           THEN LET r == get_session_data(SESSION_CACHE, inflight[n].session_id)
                IN  IF r.raised
                    THEN /\ response' = Respond(inflight[n].kind, 404, r.value,
                                                inflight[n].session_id)
                         /\ inflight' = [inflight EXCEPT ![n].at = "done", ![n].status = 404]
                         /\ UNCHANGED <<SESSION_CACHE, files, deleted, prompts>>
                    ELSE IF inflight[n].kind \in AWAITS
                    THEN /\ inflight' = [inflight EXCEPT ![n].at = "looked_up",
                                                         ![n].session_data = {r.value}]
                         /\ UNCHANGED <<SESSION_CACHE, files, deleted, prompts, response>>
                    ELSE finish_request(n, r.value)
           ELSE \E session_data \in inflight[n].session_data :
                    finish_request(n, session_data)
    /\ UNCHANGED <<uuids, uploads, pc, created_from, any_order>>
    /\ UNCHANGED upload_vars
    /\ UNCHANGED graph_vars
    /\ UNCHANGED gemini_vars
    /\ UNCHANGED term_prompt
    /\ UNCHANGED upload_file
    /\ UNCHANGED CONTRACT_CACHE
    /\ UNCHANGED videos
    /\ UNCHANGED video_owner
    /\ UNCHANGED contracts_deleted
    /\ UNCHANGED legal_pc
    /\ UNCHANGED legal_state
    /\ UNCHANGED legal_caps
    /\ UNCHANGED legal_order
    /\ UNCHANGED legal_prompt

\* ------------------------------------------- contracts and their videos

\* what the contract and video handlers leave alone
session_side ==
    <<SESSION_CACHE, files, uploads, deleted, pc, upload_vars, graph_vars, gemini_vars,
      any_order, prompts, created_from, inflight, term_prompt, upload_file>>

\* what the model of the legal agent may answer
LegalDocOutcomes == {Raises, Returns(<<>>), Returns(<<SPACE>>), Returns(<<"agreement">>)}
TriviaOutcomes == {Raises, Returns(<<>>), Returns(<<"right">>), Returns(<<"right", "wage">>)}
\* the search of the contract agent: it fails, finds nothing, or finds something
LegalSearchOutcomes == {Raises, Returns(<<>>), Returns(<<"results">>)}

\* the contract ids asked for: those of the contracts, one nobody has, and
\* one that goes on after the first with an underscore
ContractIds ==
    {<<str(n)>> : n \in 1..(MaxContracts + 1)} \cup {<<str(uuid4(0)), UNDERSCORE, "x">>}

\* the contract_id form values of the video uploads: two ids the server may
\* hand out, and one that goes on after the first with an underscore
VideoContractIds ==
    {<<str(uuid4(0))>>, <<str(uuid4(uuid4(0)))>>, <<str(uuid4(0)), UNDERSCORE, "x">>}

CONTRACT_NOT_FOUND == "Contract not found"

\* main.py:165-170
get_contract_data(cache, contract_id) ==
    IF contract_id \in DOMAIN cache
    THEN Ok(cache[contract_id])
    ELSE Raise(CONTRACT_NOT_FOUND)

\* main.py:228-270
generate_contract(doc_llms, chains) ==
    /\ pc = "idle"
    /\ Cardinality(DOMAIN CONTRACT_CACHE \cup contracts_deleted) < MaxContracts
    /\ \E user_request \in {"request"}, doc_llm \in doc_llms,
          search \in SearchOutcomes, chain \in chains :
        LET result == legal_agent(doc_llm, search, chain)
            contract_id == <<str(uuid4(uuids))>>
        IN  IF result.raised
            THEN /\ response' = Respond("generate_contract", 500, "Contract generation failed", 0)
                 /\ UNCHANGED <<CONTRACT_CACHE, uuids>>
            ELSE /\ uuids' = uuids + 1
                 /\ CONTRACT_CACHE' =
                        [id \in DOMAIN CONTRACT_CACHE \cup {contract_id} |->
                            IF id = contract_id
                            THEN [legal_doc |-> result.value.legal_doc,
                                  legal_trivia |-> result.value.legal_trivia,
                                  user_request |-> user_request]
                            ELSE CONTRACT_CACHE[id]]
                 /\ response' =
                        [Respond("generate_contract", 200, "Contract generated successfully",
                                 contract_id)
                            EXCEPT !.invoked = {result.value}]
    /\ UNCHANGED <<videos, video_owner, contracts_deleted>>
    /\ UNCHANGED session_side
    /\ UNCHANGED legal_pc
    /\ UNCHANGED legal_state
    /\ UNCHANGED legal_caps
    /\ UNCHANGED legal_order
    /\ UNCHANGED legal_prompt

\* main.py:302-311
get_contract ==
    /\ pc = "idle"
    /\ \E contract_id \in ContractIds :
        LET r == get_contract_data(CONTRACT_CACHE, contract_id)
        IN  IF r.raised
            THEN response' = Respond("get_contract", 404, r.value, contract_id)
            ELSE response' =
                     [Respond("get_contract", 200, "Contract retrieved successfully",
                              contract_id)
                         EXCEPT !.invoked = {r.value}]
    /\ UNCHANGED <<CONTRACT_CACHE, uuids, videos, video_owner, contracts_deleted>>
    /\ UNCHANGED session_side
    /\ UNCHANGED legal_pc
    /\ UNCHANGED legal_state
    /\ UNCHANGED legal_caps
    /\ UNCHANGED legal_order
    /\ UNCHANGED legal_prompt

\* main.py:313-329
list_contracts ==
    /\ pc = "idle"
    /\ response' =
           [Respond("list_contracts", 200, "contract(s)", <<>>)
               EXCEPT !.sessions = DOMAIN CONTRACT_CACHE]
    /\ UNCHANGED <<CONTRACT_CACHE, uuids, videos, video_owner, contracts_deleted>>
    /\ UNCHANGED session_side
    /\ UNCHANGED legal_pc
    /\ UNCHANGED legal_state
    /\ UNCHANGED legal_caps
    /\ UNCHANGED legal_order
    /\ UNCHANGED legal_prompt

\* main.py:336-345: the record goes, and the videos whose name starts with
\* the prefix of the contract
KeepContract(cache, dir, contract_id) ==
    [cache |-> cache,
     videos |-> {f \in dir : ~startswith(f, video_prefix(contract_id))}]

remove_contract(cache, dir, contract_id) ==
    [cache |-> [id \in DOMAIN cache \ {contract_id} |-> cache[id]],
     videos |-> {f \in dir : ~startswith(f, video_prefix(contract_id))}]

\* main.py:331-349
delete_contract ==
    /\ pc = "idle"
    /\ \E contract_id \in ContractIds :
        LET r == get_contract_data(CONTRACT_CACHE, contract_id)
        IN  IF r.raised
            THEN /\ response' = Respond("delete_contract", 404, r.value, contract_id)
                 /\ UNCHANGED <<CONTRACT_CACHE, videos, contracts_deleted>>
            ELSE LET after == remove_contract(CONTRACT_CACHE, videos, contract_id)
                 IN  /\ CONTRACT_CACHE' = after.cache
                     /\ videos' = after.videos
                     /\ contracts_deleted' = contracts_deleted \cup {contract_id}
                     /\ response' =
                            Respond("delete_contract", 200,
                                    "Contract and associated data deleted successfully",
                                    contract_id)
    /\ UNCHANGED <<uuids, video_owner>>
    /\ UNCHANGED session_side
    /\ UNCHANGED legal_pc
    /\ UNCHANGED legal_state
    /\ UNCHANGED legal_caps
    /\ UNCHANGED legal_order
    /\ UNCHANGED legal_prompt

VIDEO_TYPES == {"video/mp4", "video/avi", "video/quicktime", "video/x-msvideo"}
\* 100 * 1024 * 1024, main.py:594
MAX_VIDEO_BYTES == 104857600

\* main.py:586-595
validate_video(content_type, size) ==
    IF content_type \notin VIDEO_TYPES
    THEN Raise("Invalid video format.")
    ELSE IF size # 0 /\ size > MAX_VIDEO_BYTES
    THEN Raise("Video too large. Maximum size is 100MB.")
    ELSE Ok("")

\* main.py:567-623
upload_video_consent ==
    /\ pc = "idle"
    /\ Cardinality(DOMAIN video_owner) < MaxVideos
    /\ \E contract_id \in VideoContractIds, content_type \in {"video/mp4", "image/png"},
          size \in {0, MAX_VIDEO_BYTES + 1} :
        LET checked == validate_video(content_type, size)
            filename == video_filename(contract_id, uuid4(uuids))
        IN  IF checked.raised
            THEN /\ response' = Respond("upload_video", 400, checked.value, contract_id)
                 /\ UNCHANGED <<uuids, videos, video_owner>>
            ELSE /\ uuids' = uuids + 1
                 /\ videos' = videos \cup {filename}
                 /\ video_owner' =
                        [f \in DOMAIN video_owner \cup {filename} |->
                            IF f = filename THEN contract_id ELSE video_owner[f]]
                 /\ response' =
                        [Respond("upload_video", 200, "Video consent uploaded successfully",
                                 contract_id)
                            EXCEPT !.sessions = {filename}]
    /\ UNCHANGED <<CONTRACT_CACHE, contracts_deleted>>
    /\ UNCHANGED session_side
    /\ UNCHANGED legal_pc
    /\ UNCHANGED legal_state
    /\ UNCHANGED legal_caps
    /\ UNCHANGED legal_order
    /\ UNCHANGED legal_prompt

\* main.py:625-655
get_contract_videos ==
    /\ pc = "idle"
    /\ \E contract_id \in ContractIds :
        response' =
            [Respond("get_videos", 200, "video(s) for contract", contract_id)
                EXCEPT !.sessions = {f \in videos : startswith(f, video_prefix(contract_id))}]
    /\ UNCHANGED <<CONTRACT_CACHE, uuids, videos, video_owner, contracts_deleted>>
    /\ UNCHANGED session_side
    /\ UNCHANGED legal_pc
    /\ UNCHANGED legal_state
    /\ UNCHANGED legal_caps
    /\ UNCHANGED legal_order
    /\ UNCHANGED legal_prompt

\* ------------------------------------------------- the general assistant

\* general_assistant_agent.py:24-25
MAX_RETRIES == 5
BASE_DELAY == 2

CONFIG_ERROR == "Error: The Gen AI client is not configured. Please check your API key."
RATE_LIMIT_ERROR == "Error: Rate limit exceeded after 5 attempts. Please try again later."
API_ERROR == "An error occurred while communicating with the Gemini API"
NO_RESPONSE_ERROR == "Error: Failed to get response from Gemini API."
GEMINI_TEXT == "response.text"

\* how one client.models.generate_content call ends: a response, an exception
\* whose text has "429" or "RESOURCE_EXHAUSTED", another exception
GEMINI_OUTCOMES == {"ok", "rate_limited", "error"}

\* what random.uniform(0, 1) adds to the base delay.  It is a float of
\* [0, 1), and the float sum of line 41 is the base delay ("0"), a value
\* strictly between the base delay and the base delay + 1 ("between"), or,
\* rounded up for the highest values of [0, 1), the base delay + 1 ("1"):
\* 2 + (1 - 2 ** -53) == 3.0.
JITTER == {"0", "between", "1"}

\* line 37: attempt == max_retries - 1
GivesUpLate(n) == n = MAX_RETRIES

last_attempt(n) == n = MAX_RETRIES - 1

\* lines 33-45: what ask_gemini does after attempt n ended with outcome
RetryEveryError(outcome, n) ==
    IF outcome = "ok" THEN [do |-> "return", value |-> GEMINI_TEXT]
    ELSE IF last_attempt(n) THEN [do |-> "return", value |-> RATE_LIMIT_ERROR]
    ELSE [do |-> "sleep", value |-> ""]

after_attempt(outcome, n) ==
    IF outcome = "ok" THEN [do |-> "return", value |-> GEMINI_TEXT]
    ELSE IF outcome = "rate_limited"
    THEN IF last_attempt(n)
         THEN [do |-> "return", value |-> RATE_LIMIT_ERROR]
         ELSE [do |-> "sleep", value |-> ""]
    ELSE [do |-> "return", value |-> API_ERROR]

\* line 41, without the jitter: base_delay * (2 ** attempt)
LinearDelay(n) == BASE_DELAY * (n + 1)

backoff_delay(n) == BASE_DELAY * (2 ^ n)

\* main.py:546-549 and general_assistant_agent.py:21-25: the request comes
\* in and ask_gemini starts
ask_gemini ==
    /\ pc = "idle"
    /\ gem_pc = "idle"
    /\ outcomes' = <<>>
    /\ sleeps' = <<>>
    /\ attempt' = 0
    /\ IF ~client
       THEN /\ answer' = CONFIG_ERROR
            /\ gem_pc' = "returned"
       ELSE /\ answer' = ""
            /\ gem_pc' = "call"
    /\ UNCHANGED <<client, pc>>
    /\ UNCHANGED server_vars
    /\ UNCHANGED upload_vars
    /\ UNCHANGED graph_vars
    /\ UNCHANGED any_order
    /\ UNCHANGED prompts
    /\ UNCHANGED created_from
    /\ UNCHANGED inflight
    /\ UNCHANGED term_prompt
    /\ UNCHANGED upload_file
    /\ UNCHANGED CONTRACT_CACHE
    /\ UNCHANGED videos
    /\ UNCHANGED video_owner
    /\ UNCHANGED contracts_deleted
    /\ UNCHANGED legal_pc
    /\ UNCHANGED legal_state
    /\ UNCHANGED legal_caps
    /\ UNCHANGED legal_order
    /\ UNCHANGED legal_prompt

\* general_assistant_agent.py:27-47: one pass of the loop over the attempts
generate_content ==
    /\ gem_pc = "call"
    /\ \E outcome \in GEMINI_OUTCOMES, jitter \in JITTER :
        /\ outcomes' = Append(outcomes, outcome)
        /\ IF after_attempt(outcome, attempt).do = "return"
           THEN /\ answer' = after_attempt(outcome, attempt).value
                /\ gem_pc' = "returned"
                /\ UNCHANGED <<attempt, sleeps>>
           ELSE /\ sleeps' = Append(sleeps, [after |-> attempt,
                                             seconds |-> backoff_delay(attempt),
                                             jitter |-> jitter])
                /\ IF attempt + 1 < MAX_RETRIES
                   THEN /\ attempt' = attempt + 1
                        /\ UNCHANGED <<gem_pc, answer>>
                   ELSE /\ answer' = NO_RESPONSE_ERROR
                        /\ gem_pc' = "returned"
                        /\ UNCHANGED attempt
    /\ UNCHANGED <<client, pc>>
    /\ UNCHANGED server_vars
    /\ UNCHANGED upload_vars
    /\ UNCHANGED graph_vars
    /\ UNCHANGED any_order
    /\ UNCHANGED prompts
    /\ UNCHANGED created_from
    /\ UNCHANGED inflight
    /\ UNCHANGED term_prompt
    /\ UNCHANGED upload_file
    /\ UNCHANGED CONTRACT_CACHE
    /\ UNCHANGED videos
    /\ UNCHANGED video_owner
    /\ UNCHANGED contracts_deleted
    /\ UNCHANGED legal_pc
    /\ UNCHANGED legal_state
    /\ UNCHANGED legal_caps
    /\ UNCHANGED legal_order
    /\ UNCHANGED legal_prompt

\* main.py:551-558: the answer goes out, whatever it says
general_chat ==
    /\ gem_pc = "returned"
    /\ gem_pc' = "idle"
    /\ response' = Respond("assistant", 200, answer, 0)
    /\ UNCHANGED <<client, attempt, outcomes, sleeps, answer, pc>>
    /\ UNCHANGED <<SESSION_CACHE, files, uuids, uploads, deleted>>
    /\ UNCHANGED upload_vars
    /\ UNCHANGED graph_vars
    /\ UNCHANGED any_order
    /\ UNCHANGED prompts
    /\ UNCHANGED created_from
    /\ UNCHANGED inflight
    /\ UNCHANGED term_prompt
    /\ UNCHANGED upload_file
    /\ UNCHANGED CONTRACT_CACHE
    /\ UNCHANGED videos
    /\ UNCHANGED video_owner
    /\ UNCHANGED contracts_deleted
    /\ UNCHANGED legal_pc
    /\ UNCHANGED legal_state
    /\ UNCHANGED legal_caps
    /\ UNCHANGED legal_order
    /\ UNCHANGED legal_prompt

\* ------------------------------------------------------ specifications

\* the server: any sequence of requests
Next ==
    \/ demystify_upload(MaxUploads, Pdfs, FEW_UPLOAD_SIZES)
    \/ load
    \/ split_chunks
    \/ index
    \/ summarize
    \/ identify_terms(FewTermOutcomes)
    \/ generate_report_term(FewContentOutcomes)
    \/ generate_report_end
    \/ register
    \/ upload_except
    \/ demystify_chat
    \/ list_demystify_sessions
    \/ delete_demystify_session

Spec == Init /\ [][Next]_vars

\* the server with documents of more chunks than the retriever returns and
\* than the graph is given; no term is identified, so that the sessions and
\* their chats are what varies
LongPdfs == {FOUR_CHUNK_PDF, LONG_PDF}

NextChat ==
    \/ demystify_upload(MaxUploads, LongPdfs, FEW_UPLOAD_SIZES)
    \/ load
    \/ split_chunks
    \/ index
    \/ summarize
    \/ identify_terms({Raises})
    \/ generate_report_end
    \/ register
    \/ upload_except
    \/ demystify_chat
    \/ delete_demystify_session

SpecChat == Init /\ [][NextChat]_vars

\* an upload, chats and deletes side by side
RacePdfs == {ONE_CHUNK_PDF}

NextRace ==
    \/ demystify_upload(1, RacePdfs, FEW_UPLOAD_SIZES)
    \/ load
    \/ split_chunks
    \/ index
    \/ summarize
    \/ identify_terms({Raises})
    \/ generate_report_end
    \/ register
    \/ upload_except
    \/ request_arrives
    \/ serve_request

SpecRace == Init /\ [][NextRace]_vars

\* one upload of a document short, a little over the context of a prompt, or
\* longer than what the graph is given
CapPdfs == {ONE_CHUNK_PDF, FOUR_CHUNK_PDF, LONG_PDF}

NextCap ==
    \/ demystify_upload(1, CapPdfs, UPLOAD_SIZES)
    \/ load
    \/ split_chunks
    \/ index
    \/ summarize
    \/ identify_terms(FewTermOutcomes)
    \/ generate_report_term(FewContentOutcomes)
    \/ generate_report_end
    \/ register
    \/ upload_except

SpecCap == Init /\ [][NextCap]_vars

\* legal_agent.invoke begins: the state is new, and the model, the search
\* and the chain of this run are whatever they are
legal_invoke ==
    /\ legal_pc \in {"idle", "END", "raised"}
    /\ \E doc_llm \in LegalDocOutcomes, search \in LegalSearchOutcomes,
          chain \in TriviaOutcomes :
        legal_caps' = [doc_llm |-> doc_llm, search |-> search, chain |-> chain]
    /\ legal_pc' = legal_next_node("START")
    /\ legal_state' = NEW_LEGAL_STATE
    /\ legal_order' = <<>>
    /\ legal_prompt' = {}
    /\ UNCHANGED <<uuids, response, CONTRACT_CACHE, videos, video_owner, contracts_deleted>>
    /\ UNCHANGED session_side

\* the graph runs the node it is at and follows the edge out of it
legal_step ==
    /\ legal_pc \in {"generate_legal_doc", "get_legal_trivia"}
    /\ LET r == legal_node(legal_pc, legal_state, legal_caps)
       IN  IF r.raised
           THEN /\ legal_pc' = "raised"
                /\ UNCHANGED legal_state
           ELSE /\ legal_pc' = legal_next_node(legal_pc)
                /\ legal_state' = r.value
    /\ legal_order' = Append(legal_order, legal_pc)
    /\ legal_prompt' =
           IF legal_pc = "get_legal_trivia"
           THEN {legal_search_results(legal_caps.search)}
           ELSE legal_prompt
    /\ UNCHANGED legal_caps
    /\ UNCHANGED <<uuids, response, CONTRACT_CACHE, videos, video_owner, contracts_deleted>>
    /\ UNCHANGED session_side

NextLegal ==
    \/ legal_invoke
    \/ legal_step

SpecLegal == Init /\ [][NextLegal]_vars

\* the contract registry and the video consents
NextContract ==
    \/ generate_contract({Returns(<<"agreement">>)}, {Returns(<<"right">>)})
    \/ get_contract
    \/ list_contracts
    \/ delete_contract
    \/ upload_video_consent
    \/ get_contract_videos

SpecContract == Init /\ [][NextContract]_vars

\* one upload, with every list of terms the identify-terms stage can return
\* the documents of one upload: each way of failing, and one that is indexed
UploadPdfs == {CORRUPT_PDF, NO_PAGES_PDF, BLANK_PDF, TWO_PAGE_PDF}

NextUpload ==
    \/ demystify_upload(1, UploadPdfs, FEW_UPLOAD_SIZES)
    \/ load
    \/ split_chunks
    \/ index
    \/ summarize
    \/ identify_terms(AllTermOutcomes)
    \/ generate_report_term(FewContentOutcomes)
    \/ generate_report_end
    \/ register
    \/ upload_except

SpecUpload == Init /\ [][NextUpload]_vars

\* demystifier_agent_graph.invoke on a non-empty chunk list, with every
\* response the enrichment stage can get
ShortTermOutcomes ==
    {Raises, Returns(<<>>), Returns(<<COMMA>>), Returns(<<"a">>),
     Returns(<<"a", COMMA, COMMA, SPACE, "b">>),
     Returns(<<SPACE, "b", SPACE, COMMA, "a">>)}

InitGraph ==
    /\ SESSION_CACHE = EMPTY_CACHE
    /\ files = {}
    /\ uuids = 0
    /\ uploads = 0
    /\ deleted = {}
    /\ response = NO_RESPONSE
    /\ pc = next_node("START")
    /\ pdf = CORRUPT_PDF
    /\ file_path = 0
    /\ exc = ""
    /\ documents = <<>>
    /\ chunks = <<>>
    /\ rag_chain = {}
    /\ document_chunks = <<"q1c1", "q1c2", "q2c1">>
    /\ summary = {}
    /\ identified_terms = <<>>
    /\ final_report = {}
    /\ explained_terms_list = <<>>
    /\ search_results = <<>>
    /\ content = <<>>
    /\ summary_response = {}
    /\ terms_response = {}
    /\ term_responses = <<>>
    /\ any_order = <<>>
    /\ prompts = {}
    /\ created_from = <<>>
    /\ inflight = <<>>
    /\ term_prompt = {}
    /\ upload_file = NO_FILE
    /\ CONTRACT_CACHE = <<>>
    /\ videos = {}
    /\ video_owner = <<>>
    /\ contracts_deleted = {}
    /\ legal_pc = "idle"
    /\ legal_state = [legal_doc |-> {}, legal_trivia |-> {}]
    /\ legal_caps = [doc_llm |-> Raises, search |-> Raises, chain |-> Raises]
    /\ legal_order = <<>>
    /\ legal_prompt = {}
    /\ client = TRUE
    /\ gem_pc = "idle"
    /\ attempt = 0
    /\ outcomes = <<>>
    /\ sleeps = <<>>
    /\ answer = ""

NextGraph ==
    \/ summarize
    \/ identify_terms(ShortTermOutcomes)
    \/ generate_report_term(AllContentOutcomes)
    \/ generate_report_end

SpecGraph == InitGraph /\ [][NextGraph]_vars

\* generate_report_node called on a state, with every response the
\* enrichment stage can get
ReportTermLists == {<<>>, << <<"a">> >>, << <<"a">>, <<"b">> >>, << <<"b">>, <<"a">> >>}

InitReport ==
    /\ SESSION_CACHE = EMPTY_CACHE
    /\ files = {}
    /\ uuids = 0
    /\ uploads = 0
    /\ deleted = {}
    /\ response = NO_RESPONSE
    /\ pc = "generate_report"
    /\ pdf = CORRUPT_PDF
    /\ file_path = 0
    /\ exc = ""
    /\ documents = <<>>
    /\ chunks = <<>>
    /\ rag_chain = {}
    /\ document_chunks = <<"p1c1">>
    /\ summary \in {{}, {<<"x">>}}
    /\ identified_terms \in ReportTermLists
    /\ final_report = {}
    /\ explained_terms_list = <<>>
    /\ search_results = <<>>
    /\ content = <<>>
    /\ summary_response = {}
    /\ terms_response = {}
    /\ term_responses = <<>>
    /\ any_order = <<>>
    /\ prompts = {}
    /\ created_from = <<>>
    /\ inflight = <<>>
    /\ term_prompt = {}
    /\ upload_file = NO_FILE
    /\ CONTRACT_CACHE = <<>>
    /\ videos = {}
    /\ video_owner = <<>>
    /\ contracts_deleted = {}
    /\ legal_pc = "idle"
    /\ legal_state = [legal_doc |-> {}, legal_trivia |-> {}]
    /\ legal_caps = [doc_llm |-> Raises, search |-> Raises, chain |-> Raises]
    /\ legal_order = <<>>
    /\ legal_prompt = {}
    /\ client = TRUE
    /\ gem_pc = "idle"
    /\ attempt = 0
    /\ outcomes = <<>>
    /\ sleeps = <<>>
    /\ answer = ""

NextReport ==
    \/ generate_report_term(AllContentOutcomes)
    \/ generate_report_end

SpecReport == InitReport /\ [][NextReport]_vars

\* the loop of generate_report_node next to the same terms enriched in any
\* order
EnrichTermLists ==
    {<<>>, << <<"a">> >>, << <<"a">>, <<"b">> >>, << <<"b">>, <<"a">>, <<"a">> >>}
EnrichOutcomes ==
    {Raises, Returns(<<>>), Returns(WELL_FORMED), Returns(<<"x">>),
     Returns(<<EXPLANATION, "x", URL>>)}

InitEnrich ==
    /\ SESSION_CACHE = EMPTY_CACHE
    /\ files = {}
    /\ uuids = 0
    /\ uploads = 0
    /\ deleted = {}
    /\ response = NO_RESPONSE
    /\ pc = "generate_report"
    /\ pdf = ONE_CHUNK_PDF
    /\ file_path = 0
    /\ exc = ""
    /\ documents = <<>>
    /\ chunks = <<>>
    /\ rag_chain = {}
    /\ document_chunks = <<"chunk">>
    /\ summary = {<<"x">>}
    /\ identified_terms \in EnrichTermLists
    /\ final_report = {}
    /\ explained_terms_list = <<>>
    /\ search_results = <<>>
    /\ content = <<>>
    /\ summary_response = {}
    /\ terms_response = {}
    /\ term_responses = <<>>
    /\ any_order = <<>>
    /\ prompts = {}
    /\ created_from = <<>>
    /\ inflight = <<>>
    /\ term_prompt = {}
    /\ upload_file = NO_FILE
    /\ CONTRACT_CACHE = <<>>
    /\ videos = {}
    /\ video_owner = <<>>
    /\ contracts_deleted = {}
    /\ legal_pc = "idle"
    /\ legal_state = [legal_doc |-> {}, legal_trivia |-> {}]
    /\ legal_caps = [doc_llm |-> Raises, search |-> Raises, chain |-> Raises]
    /\ legal_order = <<>>
    /\ legal_prompt = {}
    /\ client = TRUE
    /\ gem_pc = "idle"
    /\ attempt = 0
    /\ outcomes = <<>>
    /\ sleeps = <<>>
    /\ answer = ""

NextEnrich ==
    \/ generate_report_term(EnrichOutcomes)
    \/ enrich_any_order
    \/ generate_report_end

SpecEnrich == InitEnrich /\ [][NextEnrich]_vars

\* identify_terms_node alone, with and without a document context, on every
\* response of up to MaxFields fields and every one of up to MaxTermsLen tokens
TermsAlphabet == {COMMA, SPACE, "a", "b"}
AllTermStrings ==
    AllTermOutcomes \cup {Returns(s) : s \in StringsUpTo(TermsAlphabet, MaxTermsLen)}

InitTerms ==
    /\ SESSION_CACHE = EMPTY_CACHE
    /\ files = {}
    /\ uuids = 0
    /\ uploads = 0
    /\ deleted = {}
    /\ response = NO_RESPONSE
    /\ pc = "identify_terms"
    /\ pdf = ONE_CHUNK_PDF
    /\ file_path = 0
    /\ exc = ""
    /\ documents = <<>>
    /\ chunks = <<>>
    /\ rag_chain = {}
    /\ document_chunks \in {<<>>, <<"chunk">>}
    /\ summary = {<<"x">>}
    /\ identified_terms = <<>>
    /\ final_report = {}
    /\ explained_terms_list = <<>>
    /\ search_results = <<>>
    /\ content = <<>>
    /\ summary_response = {}
    /\ terms_response = {}
    /\ term_responses = <<>>
    /\ any_order = <<>>
    /\ prompts = {}
    /\ created_from = <<>>
    /\ inflight = <<>>
    /\ term_prompt = {}
    /\ upload_file = NO_FILE
    /\ CONTRACT_CACHE = <<>>
    /\ videos = {}
    /\ video_owner = <<>>
    /\ contracts_deleted = {}
    /\ legal_pc = "idle"
    /\ legal_state = [legal_doc |-> {}, legal_trivia |-> {}]
    /\ legal_caps = [doc_llm |-> Raises, search |-> Raises, chain |-> Raises]
    /\ legal_order = <<>>
    /\ legal_prompt = {}
    /\ client = TRUE
    /\ gem_pc = "idle"
    /\ attempt = 0
    /\ outcomes = <<>>
    /\ sleeps = <<>>
    /\ answer = ""

NextTerms == identify_terms(AllTermStrings)

SpecTerms == InitTerms /\ [][NextTerms]_vars

\* the general assistant alone, with the client configured or not
InitGemini ==
    /\ SESSION_CACHE = EMPTY_CACHE
    /\ files = {}
    /\ uuids = 0
    /\ uploads = 0
    /\ deleted = {}
    /\ response = NO_RESPONSE
    /\ pc = "idle"
    /\ pdf = CORRUPT_PDF
    /\ file_path = 0
    /\ exc = ""
    /\ documents = <<>>
    /\ chunks = <<>>
    /\ rag_chain = {}
    /\ document_chunks = <<>>
    /\ summary = {}
    /\ identified_terms = <<>>
    /\ final_report = {}
    /\ explained_terms_list = <<>>
    /\ search_results = <<>>
    /\ content = <<>>
    /\ summary_response = {}
    /\ terms_response = {}
    /\ term_responses = <<>>
    /\ any_order = <<>>
    /\ prompts = {}
    /\ created_from = <<>>
    /\ inflight = <<>>
    /\ term_prompt = {}
    /\ upload_file = NO_FILE
    /\ CONTRACT_CACHE = <<>>
    /\ videos = {}
    /\ video_owner = <<>>
    /\ contracts_deleted = {}
    /\ legal_pc = "idle"
    /\ legal_state = [legal_doc |-> {}, legal_trivia |-> {}]
    /\ legal_caps = [doc_llm |-> Raises, search |-> Raises, chain |-> Raises]
    /\ legal_order = <<>>
    /\ legal_prompt = {}
    /\ client \in BOOLEAN
    /\ gem_pc = "idle"
    /\ attempt = 0
    /\ outcomes = <<>>
    /\ sleeps = <<>>
    /\ answer = ""

NextGemini ==
    \/ ask_gemini
    \/ generate_content
    \/ general_chat

SpecGemini == InitGemini /\ [][NextGemini]_vars

\* ---------------------------------------------------------------- claims

LastEntry == explained_terms_list[Len(explained_terms_list)]

\* C1: every entry of key_terms in a report of generate_report_node has a
\* non-empty explanation and a non-empty resource_link, whatever the search
\* and the model answered for the term.
C1_EveryTermHasContent ==
    \A r \in final_report :
        \A i \in 1..Len(r.key_terms) :
            /\ r.key_terms[i].explanation # <<>>
            /\ r.key_terms[i].resource_link # <<>>

\* the most terms the identify-terms prompt asks for ("the 3-5 most critical")
PROMPT_MAX_TERMS == 5

\* C2: the report of a session creation has at most 5 key terms, whatever
\* the model answered in the identify-terms stage.
C2_AtMostFiveTerms ==
    \A r \in response.report : Len(r.key_terms) <= PROMPT_MAX_TERMS

\* the documents with nothing to extract: no page, or pages without text
EmptyPdfs == {NO_PAGES_PDF, BLANK_PDF}

\* C3: processing an empty or unextractable document ends in the
\* empty-document error (and so registers no session).
C3_EmptyDocumentError ==
    (pdf \in EmptyPdfs /\ pc \notin {"load", "split", "index"})
        => (pc = "raised" /\ exc = EMPTY_DOCUMENT)

\* C4: a step of session creation that is not the last one, a failing step
\* and its handler included, leaves SESSION_CACHE alone; the session is
\* stored by the last step, when the documents, the chain and the report
\* exist, under one new id, never a deleted one, and every session that
\* existed is kept as it was; no other request adds a session.
C4_SessionStoredLast ==
    [][LET added == DOMAIN SESSION_CACHE' \ DOMAIN SESSION_CACHE
       IN  /\ (pc \notin {"idle", "graph_end"}) => SESSION_CACHE' = SESSION_CACHE
           /\ (pc = "idle") => added = {}
           /\ (pc = "graph_end" /\ pc' = "idle") =>
                  /\ documents # <<>>
                  /\ rag_chain # {}
                  /\ final_report # {}
                  /\ added = {response'.session_id}
                  /\ response'.session_id \notin deleted
                  /\ SESSION_CACHE'[response'.session_id].rag_chain = rag_chain
                  /\ \A sid \in DOMAIN SESSION_CACHE :
                         /\ sid \in DOMAIN SESSION_CACHE'
                         /\ SESSION_CACHE'[sid] = SESSION_CACHE[sid]]_vars

C4_Witness ==
    /\ response.endpoint = "upload"
    /\ response.status = 500
    /\ SESSION_CACHE # EMPTY_CACHE

\* C5: a deleted session id is never again in SESSION_CACHE, and every chat
\* or delete addressed to it afterwards is answered 404.
C5_DeletedStaysDeleted ==
    /\ [](deleted \cap DOMAIN SESSION_CACHE = {})
    /\ [][(/\ pc = "idle"
           /\ pc' = "idle"
           /\ response'.endpoint \in {"chat", "delete"}
           /\ response'.session_id \in deleted)
              => response'.status = 404]_vars

C5_Witness ==
    /\ response.endpoint = "chat"
    /\ response.session_id \in deleted
    /\ response.status = 404
    /\ SESSION_CACHE # EMPTY_CACHE

\* C6: a delete of an existing session removes its record from
\* SESSION_CACHE and its uploaded file, which was there, from the disk.
C6_DeleteRemovesRecordAndFile ==
    [][(/\ pc = "idle"
        /\ response'.endpoint = "delete"
        /\ response'.status = 200
        /\ response'.session_id \in DOMAIN SESSION_CACHE)
           => LET sid == response'.session_id
              IN  /\ sid \notin DOMAIN SESSION_CACHE'
                  /\ SESSION_CACHE[sid].file_path \in files
                  /\ SESSION_CACHE[sid].file_path \notin files']_vars

C6_Witness ==
    /\ response.endpoint = "delete"
    /\ response.status = 200
    /\ response.session_id \in deleted
    /\ SESSION_CACHE # EMPTY_CACHE
    /\ files # {}

\* C7: a chat or a delete for an id that is not in SESSION_CACHE is
\* answered 404, invokes no chain, and changes neither SESSION_CACHE nor the
\* files.
C7_UnknownSessionNotFound ==
    [][(/\ pc = "idle"
        /\ pc' = "idle"
        /\ response'.endpoint \in {"chat", "delete"}
        /\ response'.session_id \notin DOMAIN SESSION_CACHE)
           => /\ response'.status = 404
              /\ response'.detail = NOT_FOUND
              /\ response'.invoked = {}
              /\ SESSION_CACHE' = SESSION_CACHE
              /\ files' = files]_vars

C7_Witness ==
    /\ response.endpoint = "delete"
    /\ response.status = 404
    /\ response.session_id \notin deleted
    /\ SESSION_CACHE # EMPTY_CACHE
    /\ files # {}

\* the stages of the graph, last first
Rank ==
    CASE pc = "summarize" -> 3
      [] pc = "identify_terms" -> 2
      [] pc = "generate_report" -> 1
      [] OTHER -> 0

Remaining == Len(identified_terms) - Len(explained_terms_list)

\* C8: on a non-empty chunk list no exception leaves the graph, whatever
\* fails in whichever stage; every step brings the run nearer to its end, a
\* run that has not ended can take a step, and it ends with a final_report
\* that has a summary, one key term per identified term and the advice.
C8_GraphAbsorbsFailures ==
    /\ [](/\ pc # "raised"
          /\ exc = ""
          /\ Remaining >= 0
          /\ (pc # "graph_end") => ENABLED NextGraph
          /\ (pc = "graph_end") =>
                 /\ final_report # {}
                 /\ \A r \in final_report :
                        /\ r.summary # <<>>
                        /\ summary = {r.summary}
                        /\ Len(r.key_terms) = Len(identified_terms)
                        /\ r.overall_advice = DISCLAIMER)
    /\ [][\/ Rank' < Rank
          \/ (Rank' = Rank /\ Remaining' < Remaining)]_vars

C8_Witness ==
    /\ pc = "graph_end"
    /\ summary = {SUMMARY_ERROR}
    /\ search_results = SEARCH_UNAVAILABLE
    /\ \E r \in final_report :
           /\ Len(r.key_terms) = 2
           /\ r.key_terms[1].explanation = EXPLANATION_UNAVAILABLE
           /\ r.key_terms[2].resource_link = <<>>

C10_MissingMarkerFallbackLink ==
    /\ pc # "raised"
    /\ (/\ explained_terms_list # <<>>
        /\ content # <<>>
        /\ (~Contains(content, URL) \/ ~Contains(content, EXPLANATION)))
           => LastEntry.resource_link = DEFAULT_LINK

C10_Witness ==
    /\ pc = "graph_end"
    /\ content = <<EXPLANATION, "x">>
    /\ Len(explained_terms_list) = 2
    /\ LastEntry.resource_link = DEFAULT_LINK
    /\ LastEntry.explanation = content

\* C11: a run of the graph goes through summarize, identify_terms and
\* generate_report in this order and enters each once: identify_terms is
\* entered only by the step of summarize that writes the summary,
\* generate_report only by the step of identify_terms that writes the term
\* list, and the run ends only out of generate_report; the summary and the
\* term list are written by their own stage alone.
C11_StagesInOrder ==
    /\ [](/\ pc \in {"summarize", "identify_terms", "generate_report", "graph_end"}
          /\ (pc = "summarize") => (summary = {} /\ final_report = {})
          /\ (pc \in {"identify_terms", "generate_report"}) =>
                 (summary # {} /\ final_report = {})
          /\ (pc = "graph_end") => (summary # {} /\ final_report # {}))
    /\ [][/\ (pc' # pc) =>
                 \/ (pc = "summarize" /\ pc' = "identify_terms" /\ summary' # summary)
                 \/ (pc = "identify_terms" /\ pc' = "generate_report")
                 \/ (pc = "generate_report" /\ pc' = "graph_end")
          /\ (summary' # summary) => pc = "summarize"
          /\ (identified_terms' # identified_terms) => pc = "identify_terms"
          /\ (explained_terms_list' # explained_terms_list \/ final_report' # final_report)
                 => pc = "generate_report"
          /\ (pc \in {"summarize", "identify_terms"}) => pc' # pc]_vars

C11_Witness ==
    /\ pc = "graph_end"
    /\ identified_terms # <<>>
    /\ \E r \in final_report : r.summary = <<"x">> /\ Len(r.key_terms) = 2

AllRateLimited == \A i \in 1..Len(outcomes) : outcomes[i] = "rate_limited"

\* C12: ask_gemini calls the generation capability at most 5 times; when
\* every call is rate-limited it returns after the 5th, and what it returns
\* is the rate-limit error, not a generic message.
C12_AtMostFiveAttempts ==
    /\ Len(outcomes) <= 5
    /\ (gem_pc = "call") => (Len(outcomes) < 5 /\ Len(outcomes) = attempt)
    /\ (gem_pc = "returned" /\ outcomes # <<>> /\ AllRateLimited) =>
           /\ Len(outcomes) = 5
           /\ answer = RATE_LIMIT_ERROR
    /\ (gem_pc = "returned" /\ Len(outcomes) = 5 /\ outcomes[5] = "rate_limited") =>
           answer \notin {API_ERROR, NO_RESPONSE_ERROR, GEMINI_TEXT}

C12_Witness ==
    /\ gem_pc = "returned"
    /\ Len(outcomes) = 5
    /\ AllRateLimited
    /\ answer = RATE_LIMIT_ERROR

\* C13: a step leaves every stored session as it was, record and file,
\* unless the step is the successful delete of that very session; so a
\* request for one session touches no other, and a record never changes
\* between its creation and its deletion.
C13_OtherSessionsUntouched ==
    [][\A sid \in DOMAIN SESSION_CACHE :
          \/ /\ sid \in DOMAIN SESSION_CACHE'
             /\ SESSION_CACHE'[sid] = SESSION_CACHE[sid]
             /\ (SESSION_CACHE[sid].file_path \in files) =>
                    (SESSION_CACHE[sid].file_path \in files')
          \/ /\ response'.endpoint = "delete"
             /\ response'.status = 200
             /\ response'.session_id = sid]_vars

C13_Witness ==
    /\ response.endpoint = "delete"
    /\ response.status = 200
    /\ \E sid \in DOMAIN SESSION_CACHE :
        /\ sid # response.session_id
        /\ SESSION_CACHE[sid].rag_chain # {}
        /\ SESSION_CACHE[sid].file_path \in files

\* the summarization call raised, or returned an empty response
SummaryCallFailed ==
    /\ summary_response # {}
    /\ \A llm \in summary_response : llm.raised \/ llm.content = <<>>

\* C14: when the summarization call raises or returns an empty response,
\* summarize_node writes a placeholder summary, the graph goes on to
\* identify_terms and generate_report, and the report's summary is that
\* placeholder.
C14_SummaryPlaceholder ==
    SummaryCallFailed =>
        /\ pc \in {"identify_terms", "generate_report", "graph_end"}
        /\ \A llm \in summary_response :
               summary = {IF llm.raised THEN SUMMARY_ERROR ELSE SUMMARY_FAILED}
        /\ (pc = "graph_end") => final_report # {}
        /\ \A report \in final_report : report.summary \in summary

C14_Witness ==
    /\ SummaryCallFailed
    /\ pc = "graph_end"
    /\ identified_terms # <<>>
    /\ \E report \in final_report : report.summary = SUMMARY_ERROR

\* the fields of s: the pairs <<a, b>> of neighbouring separator positions
\* (0 and Len(s) + 1 stand for the two ends) with a token that is not
\* whitespace strictly between them
Separators(s) == {0, Len(s) + 1} \cup {i \in 1..Len(s) : s[i] = COMMA}

Inked(s, a, b) == {i \in (a + 1)..(b - 1) : s[i] # SPACE}

NonBlankFields(s) ==
    {f \in Separators(s) \X Separators(s) :
        /\ f[1] < f[2]
        /\ \A i \in (f[1] + 1)..(f[2] - 1) : s[i] # COMMA
        /\ Inked(s, f[1], f[2]) # {}}

\* the field from its first token that is not whitespace to its last
Trimmed(s, f) ==
    LET ink == Inked(s, f[1], f[2])
        lo == CHOOSE i \in ink : \A j \in ink : i <= j
        hi == CHOOSE i \in ink : \A j \in ink : j <= i
    IN  SubSeq(s, lo, hi)

IsTermListOf(terms, s) ==
    /\ Len(terms) = Cardinality(NonBlankFields(s))
    /\ \A f \in NonBlankFields(s) :
           terms[1 + Cardinality({g \in NonBlankFields(s) : g[1] < f[1]})] = Trimmed(s, f)

\* C15: identify_terms_node returns the comma-separated fields of the
\* response, trimmed, without the empty ones and in their order; with an
\* empty response, no document context or an exception it returns no terms.
C15_TermsAreTrimmedFields ==
    (pc = "generate_report") =>
        IF document_chunks = <<>>
        THEN terms_response = {} /\ identified_terms = <<>>
        ELSE /\ terms_response # {}
             /\ \A llm \in terms_response :
                    IF llm.raised \/ llm.content = <<>>
                    THEN identified_terms = <<>>
                    ELSE IsTermListOf(identified_terms, llm.content)

C15_Witness ==
    /\ pc = "generate_report"
    /\ terms_response = {Returns(<<"b", SPACE, COMMA, COMMA, "a">>)}
    /\ identified_terms = <<<<"b">>, <<"a">>>>

\* the response for term i came back non-empty and lacks a marker
LacksMarker(i) ==
    /\ ~term_responses[i].raised
    /\ term_responses[i].content # <<>>
    /\ \/ ~Contains(term_responses[i].content, EXPLANATION)
       \/ ~Contains(term_responses[i].content, URL)

\* the two explanations of the source that do not come from the response
GenericExplanations(term) == {EXPLANATION_UNAVAILABLE, term_identified(term)}

\* t is s without the whitespace at its two ends
IsTrimOf(t, s) ==
    /\ (t # <<>>) => (t[1] # SPACE /\ t[Len(t)] # SPACE)
    /\ \E i \in 0..Len(s) : \E j \in 0..(Len(s) - i) :
           /\ t = SubSeq(s, i + 1, Len(s) - j)
           /\ \A k \in 1..i : s[k] = SPACE
           /\ \A k \in (Len(s) - j + 1)..Len(s) : s[k] = SPACE

\* C16 as stated: when the response for a term lacks one of the markers,
\* the term's explanation is a generic fallback explanation and its link is
\* the default link.
C16_MissingMarkerGenericExplanation ==
    \A i \in 1..Len(explained_terms_list) :
        LacksMarker(i) =>
            /\ explained_terms_list[i].explanation
                   \in GenericExplanations(explained_terms_list[i].term)
            /\ explained_terms_list[i].resource_link = DEFAULT_LINK

\* C16, amended: when the response for a term lacks one of the markers, the
\* term's explanation is the response itself without the whitespace at its
\* ends (empty for a whitespace-only response) and its link is the default
\* link; the generic explanation and the default link are what a term gets
\* when the call raises or the response is empty.
C16_MissingMarkerRawExplanation ==
    \A i \in 1..Len(explained_terms_list) :
        /\ LacksMarker(i) =>
               /\ IsTrimOf(explained_terms_list[i].explanation, term_responses[i].content)
               /\ explained_terms_list[i].resource_link = DEFAULT_LINK
        /\ (term_responses[i].raised \/ term_responses[i].content = <<>>) =>
               /\ explained_terms_list[i].explanation = EXPLANATION_UNAVAILABLE
               /\ explained_terms_list[i].resource_link = DEFAULT_LINK

C16_Witness ==
    /\ Len(explained_terms_list) = 2
    /\ term_responses[1] = Returns(<<SPACE, "x", URL>>)
    /\ explained_terms_list[1].explanation = <<"x", URL>>
    /\ explained_terms_list[1].resource_link = DEFAULT_LINK
    /\ term_responses[2] = Raises
    /\ explained_terms_list[2].explanation = EXPLANATION_UNAVAILABLE

\* C17: key_terms has one entry per identified term, in the order of the
\* identified terms, and entry i has identified term i as its term,
\* whatever the search and the model answered for each term; while the loop
\* runs the list built so far is such a prefix.
C17_OneEntryPerTermInOrder ==
    /\ Len(explained_terms_list) <= Len(identified_terms)
    /\ Len(term_responses) = Len(explained_terms_list)
    /\ \A i \in 1..Len(explained_terms_list) :
           explained_terms_list[i].term = identified_terms[i]
    /\ \A report \in final_report :
           /\ Len(report.key_terms) = Len(identified_terms)
           /\ \A i \in 1..Len(identified_terms) :
                  report.key_terms[i].term = identified_terms[i]

C17_Witness ==
    /\ pc = "graph_end"
    /\ identified_terms = << <<"b">>, <<"a">> >>
    /\ term_responses[1] = Raises
    /\ term_responses[2] = Returns(WELL_FORMED)
    /\ \E report \in final_report :
           /\ report.key_terms[1].term = <<"b">>
           /\ report.key_terms[2].term = <<"a">>

\* C18: every report of generate_report_node, and so every report an upload
\* is answered with, has the disclaimer as its overall_advice, whatever the
\* document, the summary, the terms and the failures of the stages.
C18_AdviceIsDisclaimer ==
    \A report \in final_report \cup response.report :
        report.overall_advice = DISCLAIMER

C18_Witness ==
    /\ response.endpoint = "upload"
    /\ response.status = 200
    /\ \E report \in response.report :
           /\ report.summary = SUMMARY_ERROR
           /\ Len(report.key_terms) = MaxFields
           /\ report.key_terms[1].explanation = EXPLANATION_UNAVAILABLE
           /\ report.overall_advice = DISCLAIMER

\* C19: the entry of a term is a function of the term and of what the model
\* answered for it, the same function for every term; a pass of the loop
\* leaves the entries of the terms before it as they were, whatever fails
\* in it; and a term enriched out of turn, after any other terms and between
\* any passes of the loop, gets the entry the loop gives it.
C19_TermsAreIndependent ==
    /\ [](/\ \A i \in 1..Len(explained_terms_list) :
                 Ok(explained_terms_list[i]) =
                     explain_term(identified_terms[i], term_responses[i])
          /\ \A k \in 1..Len(any_order) :
                 any_order[k].entry = explained_terms_list[any_order[k].index])
    /\ [][/\ Len(explained_terms_list') >= Len(explained_terms_list)
          /\ \A i \in 1..Len(explained_terms_list) :
                 explained_terms_list'[i] = explained_terms_list[i]]_vars

C19_Witness ==
    /\ Len(explained_terms_list) = 3
    /\ Len(any_order) = 3
    /\ any_order[1].index = 3
    /\ any_order[2].index = 1
    /\ term_responses[1] = Returns(WELL_FORMED)
    /\ term_responses[3] = Raises
    /\ explained_terms_list[3].explanation = EXPLANATION_UNAVAILABLE
    /\ explained_terms_list[1].explanation = <<"x">>

\* C20: a chat request changes neither the registry nor the index of the
\* session it asks, and a question asked again in a session, after any
\* other questions, retrieves the chunks and builds the prompt it did the
\* first time.
C20_ChatIsStateless ==
    /\ [](\A a \in prompts : \A b \in prompts :
              (a[1] = b[1] /\ a[2] = b[2]) => a[3] = b[3])
    /\ [][(response'.endpoint = "chat" /\ (response' # response \/ prompts' # prompts)) =>
              /\ SESSION_CACHE' = SESSION_CACHE
              /\ files' = files]_vars

C20_Witness ==
    /\ response.endpoint = "chat"
    /\ response.status = 200
    /\ \E sid \in DOMAIN SESSION_CACHE :
        /\ response.session_id = sid
        /\ Len((CHOOSE c \in SESSION_CACHE[sid].rag_chain : TRUE).chunks) = 3
        /\ Cardinality({a \in prompts : a[1] = sid}) = 2
        /\ \E a \in prompts : \E b \in prompts :
               a[1] = sid /\ b[1] = sid /\ a[3].context # b[3].context

\* the chunks of a pdf
ChunksOf(f) == UNION {Tokens(f.pages[i]) : i \in 1..Len(f.pages)}

\* C21: the prompt of every chat is grounded in at most 3 chunks, all of
\* them chunks of the document the asked session was created from, and
\* every stored chain has k = 3 from the time it was built.
C21_PromptGroundedInOwnDocument ==
    /\ \A a \in prompts :
           /\ Len(a[3].context) <= 3
           /\ a[1] \in DOMAIN created_from
           /\ \A i \in 1..Len(a[3].context) :
                  a[3].context[i] \in ChunksOf(created_from[a[1]])
    /\ \A p \in response.prompt :
           /\ Len(p.context) <= 3
           /\ Tokens(p.context) \subseteq ChunksOf(created_from[response.session_id])
    /\ \A c \in rag_chain : c.k = 3
    /\ \A sid \in DOMAIN SESSION_CACHE : \A c \in SESSION_CACHE[sid].rag_chain : c.k = 3

C21_Witness ==
    /\ response.endpoint = "chat"
    /\ Cardinality(DOMAIN SESSION_CACHE) = 2
    /\ \E a \in prompts : \E b \in prompts :
           /\ a[1] # b[1]
           /\ created_from[a[1]] = FOUR_CHUNK_PDF
           /\ created_from[b[1]] = LONG_PDF
           /\ a[3].context = <<"r2c2", "r2c1", "r1c2">>
           /\ b[3].context = <<"s01", "s02", "s03">>

\* the requests of a kind for a session that have been answered with a status
Answered(kind, session_id, status) ==
    {n \in 1..Len(inflight) :
        /\ inflight[n].at = "done"
        /\ inflight[n].kind = kind
        /\ inflight[n].session_id = session_id
        /\ inflight[n].status = status}

\* C22: with chats and deletes coming in side by side with an upload, a
\* handler that has looked a session up ends before another one runs; of
\* the deletes of one session exactly one succeeds, once the session is
\* gone, and every other one gets not-found, none an unhandled error; a
\* chat gets not-found or is answered from the whole record the session
\* was stored with.
C22_RegistryOperationsAtomic ==
    /\ \A n \in 1..Len(inflight) :
           /\ inflight[n].at \in {"pending", "done"}
           /\ ~inflight[n].unhandled
           /\ (inflight[n].at = "done") => inflight[n].status \in {200, 404, 500}
           /\ (inflight[n].kind = "delete" /\ inflight[n].at = "done") =>
                  inflight[n].status \in {200, 404}
           /\ \A record \in inflight[n].invoked :
                  /\ inflight[n].session_id \in DOMAIN created_from
                  /\ record.file_path # 0
                  /\ \A c \in record.rag_chain :
                         c.chunks = split_documents(created_from[inflight[n].session_id].pages)
                  /\ record.rag_chain # {}
    /\ \A sid \in SessionIds :
           Cardinality(Answered("delete", sid, 200)) = IF sid \in deleted THEN 1 ELSE 0

C22_Witness ==
    /\ Len(inflight) = 3
    /\ \E sid \in deleted :
           /\ Cardinality(Answered("delete", sid, 200)) = 1
           /\ Cardinality(Answered("delete", sid, 404)) = 1
           /\ Cardinality(Answered("chat", sid, 200)) = 1

InGraph == pc \in {"summarize", "identify_terms", "generate_report", "graph_end"}

\* C23: the graph is given the first 10 chunks in their order, all of them
\* when there are no more than 10; the context of every enrichment prompt
\* is the first 2000 characters of those chunks joined, the whole of it
\* when it is shorter; the index of the chain holds every chunk.
C23_GraphGetsCappedPrefix ==
    /\ InGraph =>
           /\ Len(document_chunks) = (IF Len(chunks) <= 10 THEN Len(chunks) ELSE 10)
           /\ \A i \in 1..Len(document_chunks) : document_chunks[i] = chunks[i]
           /\ \A c \in rag_chain : c.chunks = chunks
    /\ \A p \in term_prompt :
           LET whole == join_chunks(document_chunks)
               n == Len(p.context)
           IN  /\ text_len(p.context) =
                      (IF text_len(whole) <= 2000 THEN text_len(whole) ELSE 2000)
               /\ n <= Len(whole)
               /\ \A i \in 1..n : p.context[i].of = whole[i].of
               /\ \A i \in 1..(n - 1) : p.context[i].chars = whole[i].chars
               /\ (n > 0) => (p.context[n].chars > 0 /\ p.context[n].chars <= whole[n].chars)
    /\ \A sid \in DOMAIN SESSION_CACHE : \A c \in SESSION_CACHE[sid].rag_chain :
           c.chunks = split_documents(created_from[sid].pages)

C23_Witness ==
    /\ pc = "generate_report"
    /\ Len(chunks) = 12
    /\ Len(document_chunks) = 10
    /\ \E c \in rag_chain : Len(c.chunks) = 12
    /\ \E p \in term_prompt :
           p.context = <<[of |-> "s01", chars |-> 1000], [of |-> SEPARATOR, chars |-> 2],
                         [of |-> "s02", chars |-> 998]>>

\* the waits are those of the rate-limited attempts before the 5th, in
\* order, each with the base delay 2 * 2^n of its attempt n
WaitsFollowRateLimits ==
    /\ Len(sleeps) <= 4
    /\ Len(sleeps) = Cardinality({i \in 1..Len(outcomes) : i < 5 /\ outcomes[i] = "rate_limited"})
    /\ \A i \in 1..Len(sleeps) :
           /\ sleeps[i].after = i - 1
           /\ outcomes[i] = "rate_limited"
           /\ sleeps[i].seconds = 2 * (2 ^ (i - 1))
           /\ sleeps[i].seconds \in {2, 4, 8, 16}

\* C24 as stated: a wait follows only a rate-limited attempt that is not
\* the 5th, and the wait after attempt n is at least 2 * 2^n seconds and
\* less than 2 * 2^n + 1.
C24_WaitBelowBasePlusOne ==
    /\ WaitsFollowRateLimits
    /\ \A i \in 1..Len(sleeps) : sleeps[i].jitter \in {"0", "between"}

\* C24, amended: a wait follows only a rate-limited attempt that is not the
\* 5th, and the wait after attempt n is at least 2 * 2^n seconds and at most
\* 2 * 2^n + 1, a value it can reach; there are at most 4 waits, with base
\* delays 2, 4, 8, 16, and none after the 5th or a successful attempt.
C24_WaitWithinBasePlusOne ==
    /\ WaitsFollowRateLimits
    /\ \A i \in 1..Len(sleeps) : sleeps[i].jitter \in {"0", "between", "1"}
    /\ (gem_pc = "returned" /\ answer = GEMINI_TEXT) =>
           Len(sleeps) = Len(outcomes) - 1
    /\ (gem_pc = "returned" /\ answer = RATE_LIMIT_ERROR) =>
           (Len(outcomes) = 5 /\ Len(sleeps) = 4)

C24_Witness ==
    /\ gem_pc = "returned"
    /\ answer = GEMINI_TEXT
    /\ Len(sleeps) = 4
    /\ sleeps[4].seconds = 16
    /\ sleeps[4].jitter = "1"
    /\ sleeps[1].jitter = "0"

\* C25: no exception of the generation call leaves ask_gemini, so the
\* assistant endpoint answers 200; an attempt that succeeds ends the call
\* with its text, an error that is not a rate limit ends it with the generic
\* error message, with no further attempt and no wait after it, and without
\* a client the configuration error comes back with no attempt made.
C25_GeminiErrorsAreReturned ==
    /\ gem_pc \in {"idle", "call", "returned"}
    /\ (response.endpoint = "assistant") => response.status = 200
    /\ (gem_pc = "call") => client
    /\ (gem_pc = "returned" /\ ~client) =>
           (outcomes = <<>> /\ sleeps = <<>> /\ answer = CONFIG_ERROR)
    /\ \A i \in 1..Len(outcomes) :
           /\ (outcomes[i] = "ok") =>
                  (i = Len(outcomes) /\ gem_pc # "call" /\ answer = GEMINI_TEXT
                   /\ Len(sleeps) = i - 1)
           /\ (outcomes[i] = "error") =>
                  (i = Len(outcomes) /\ gem_pc # "call" /\ answer = API_ERROR
                   /\ Len(sleeps) = i - 1)

C25_Witness ==
    /\ gem_pc = "idle"
    /\ response.endpoint = "assistant"
    /\ response.status = 200
    /\ response.detail = API_ERROR
    /\ outcomes = <<"error">>
    /\ sleeps = <<>>

\* C26: between requests every file written by an upload and still there is
\* the file_path of exactly one stored session.
C26_EveryFileHasItsSession ==
    (pc = "idle") =>
        \A f \in files :
            Cardinality({sid \in DOMAIN SESSION_CACHE : SESSION_CACHE[sid].file_path = f}) = 1

\* the file of the last upload request is one the checks turn away
TurnedAway ==
    /\ upload_file # NO_FILE
    /\ \/ upload_file.content_type # "application/pdf"
       \/ upload_file.size > 52428800

\* C27: an upload that is not application/pdf, or with a reported size over
\* 50MB, is answered 400; the request writes no file, draws no uuid, starts
\* no processing and stores no session.
C27_BadUploadRejectedEarly ==
    /\ [](/\ TurnedAway =>
                /\ response.endpoint = "upload"
                /\ response.status = 400
                /\ pc = "idle"
                /\ file_path = 0
                /\ documents = <<>>
                /\ rag_chain = {}
          /\ (pc # "idle") => (upload_file # NO_FILE /\ ~TurnedAway))
    /\ [][(TurnedAway' /\ upload_file' # upload_file) =>
              /\ files' = files
              /\ uuids' = uuids
              /\ SESSION_CACHE' = SESSION_CACHE
              /\ pc' = pc]_vars

C27_Witness ==
    /\ upload_file = [content_type |-> "application/pdf", size |-> 52428801]
    /\ response.status = 400
    /\ response.detail = "File too large. Maximum size is 50MB."
    /\ files = {}
    /\ SESSION_CACHE = EMPTY_CACHE

\* ---------------------------------------------------------------- C28

\* the handler that answered the step
Answers(endpoint, status) ==
    /\ response'.endpoint = endpoint
    /\ response'.status = status

\* C28: a contract generate_contract has answered with is in the registry,
\* and stays there, retrievable and listed, until the step that deletes it;
\* get and delete answer 404 exactly for an id that is not in CONTRACT_CACHE
\* and then leave the registry and the video files as they were; and an id
\* that was deleted is in no later answer of get or of the list.
C28_ContractLifecycle ==
    [][
        /\ Answers("generate_contract", 200) =>
            /\ response'.session_id \in DOMAIN CONTRACT_CACHE'
            /\ response'.session_id \notin DOMAIN CONTRACT_CACHE
            /\ response'.invoked =
                   {[legal_doc |-> CONTRACT_CACHE'[response'.session_id].legal_doc,
                     legal_trivia |-> CONTRACT_CACHE'[response'.session_id].legal_trivia]}
        /\ \A id \in DOMAIN CONTRACT_CACHE :
            \/ /\ id \in DOMAIN CONTRACT_CACHE'
               /\ CONTRACT_CACHE'[id] = CONTRACT_CACHE[id]
            \/ /\ Answers("delete_contract", 200)
               /\ response'.session_id = id
        /\ response'.endpoint = "get_contract" =>
            /\ response'.status = 200 <=> response'.session_id \in DOMAIN CONTRACT_CACHE
            /\ response'.status \in {200, 404}
            /\ response'.status = 200 =>
                   response'.invoked = {CONTRACT_CACHE[response'.session_id]}
            /\ response'.session_id \in contracts_deleted => response'.status = 404
            /\ UNCHANGED <<CONTRACT_CACHE, videos>>
        /\ response'.endpoint = "list_contracts" =>
            /\ response'.sessions = DOMAIN CONTRACT_CACHE
            /\ response'.sessions \cap contracts_deleted = {}
            /\ UNCHANGED <<CONTRACT_CACHE, videos>>
        /\ response'.endpoint = "delete_contract" =>
            /\ response'.status = 200 <=> response'.session_id \in DOMAIN CONTRACT_CACHE
            /\ response'.status \in {200, 404}
            /\ response'.status = 404 => UNCHANGED <<CONTRACT_CACHE, videos>>
            /\ response'.status = 200 =>
                /\ response'.session_id \notin DOMAIN CONTRACT_CACHE'
                /\ response'.session_id \in contracts_deleted'
        /\ contracts_deleted' \cap DOMAIN CONTRACT_CACHE' = {}
       ]_vars

\* a contract was deleted while another one is kept and has a video, and a
\* get of the deleted one has been answered with 404
C28_Witness ==
    /\ response.endpoint = "get_contract"
    /\ response.status = 404
    /\ response.session_id \in contracts_deleted
    /\ DOMAIN CONTRACT_CACHE # {}
    /\ videos # {}

\* ---------------------------------------------------------------- C29

\* C29: the videos listed for a contract id are files that were uploaded
\* with that very id, and a delete of a contract removes from the directory
\* only files that were uploaded with its id.
C29_VideosOfTheirContractOnly ==
    [][
        /\ response'.endpoint = "get_videos" =>
            \A f \in response'.sessions : video_owner[f] = response'.session_id
        /\ Answers("delete_contract", 200) =>
            \A f \in videos \ videos' : video_owner[f] = response'.session_id
       ]_vars

\* ---------------------------------------------------------------- C30

\* the order of the graph of the contract agent
LEGAL_ORDER == <<"generate_legal_doc", "get_legal_trivia">>

\* C30: the contract agent runs generate_legal_doc and then get_legal_trivia
\* and no failure of the model, of the search or of the trivia chain leaves
\* it as an exception; at the end legal_doc is a text that is not empty (the
\* placeholder of the failure when the model raised, the placeholder of the
\* empty answer when it returned nothing, and otherwise what it returned),
\* and legal_trivia has the empty list when the chain failed and otherwise
\* the list of the chain, whether the search failed or not.
C30_LegalAgentNeverRaises ==
    /\ legal_pc # "raised"
    /\ Len(legal_order) <= Len(LEGAL_ORDER)
    /\ legal_order = SubSeq(LEGAL_ORDER, 1, Len(legal_order))
    /\ legal_pc = "END" =>
        /\ legal_order = LEGAL_ORDER
        /\ \E doc \in legal_state.legal_doc :
            /\ legal_state.legal_doc = {doc}
            /\ doc # <<>>
            /\ doc = (IF legal_caps.doc_llm.raised THEN LEGAL_DOC_ERROR
                      ELSE IF legal_caps.doc_llm.content = <<>> THEN LEGAL_DOC_FAILED
                      ELSE legal_caps.doc_llm.content)
        /\ \E t \in legal_state.legal_trivia :
            /\ legal_state.legal_trivia = {t}
            /\ legal_caps.chain.raised => t.trivia = <<>>
            /\ ~legal_caps.chain.raised => t.trivia = legal_caps.chain.content
        /\ legal_caps.search.raised <=> legal_prompt = {SEARCH_UNAVAILABLE}

\* a run has ended in which the model raised and the search failed while
\* the trivia chain gave two points
C30_Witness ==
    /\ legal_pc = "END"
    /\ legal_caps.doc_llm.raised
    /\ legal_caps.search.raised
    /\ ~legal_caps.chain.raised
    /\ \E t \in legal_state.legal_trivia : Len(t.trivia) = 2
    /\ legal_state.legal_doc = {LEGAL_DOC_ERROR}

====
